---- MODULE Spec2Model ----
(***************************************************************************)
(* Verification model of hadrix-flow: the deterministic worklist fixpoint  *)
(* (fixpoint.ts), interprocedural propagation v2                           *)
(* (interproc_propagation.ts), the mapped call graph                       *)
(* (mapped_callgraph.ts), the cheap static pass, the function summary      *)
(* normalizer, the content-addressed summary cache                         *)
(* (func_summary_cache.ts) and the cheap-pass-only summary pipeline.       *)
(***************************************************************************)
EXTENDS Integers, Sequences, FiniteSets, TLC

\* ------------------------------------------------------------------------
\* Bounds of the model
\* ------------------------------------------------------------------------

\* Number of functions in the mapped call graphs that are explored.
MaxFuncs == 2

\* Largest maxSteps option value that is explored.
MaxStepsOpt == 4

\* Number of cache operations per explored behaviour.
MaxCacheOps == 3

\* Number of successive analyze commands per explored behaviour.
MaxRuns == 2

\* Cap on the driver's step counter, far above what a converging run needs.
StepCap == 40

\* ------------------------------------------------------------------------
\* determinism.ts: comparators
\* ------------------------------------------------------------------------

\* The strings the model uses, listed in code-point order (what `<` on
\* JavaScript strings yields for them).
StringUniverse ==
  << "", "*", "A.ts", "Case-insensitive match for Jelly filePath",
     "Jelly filePath basename matches analyzed files, but no suffix match found",
     "Jelly filePath does not match any analyzed file",
     "Jelly filePath is not in analyzed source files",
     "Jelly filePath matches multiple analyzed files (case-insensitive)",
     "Jelly filePath suffix-matches multiple analyzed files",
     "Mapped callsite belongs to a different function than edge.callerId",
     "No indexed callsite matches Jelly span in resolved file",
     "No indexed function matches Jelly span in resolved file", "Src/a.ts",
     "Suffix match for Jelly filePath", "Unsupported Jelly call edge kind", "a.ts", "b.ts",
     "c.ts", "call", "construct", "error", "lib/a.ts", "lib/c.ts", "n1", "n2", "src/A.ts",
     "src/a.ts", "src/b.ts", "warn", "x", "y" >>

StrRank(s) == CHOOSE i \in 1..Len(StringUniverse) : StringUniverse[i] = s

cmpString(a, b) ==
  IF StrRank(a) < StrRank(b) THEN -1 ELSE IF StrRank(a) > StrRank(b) THEN 1 ELSE 0

cmpNumber(a, b) == IF a < b THEN -1 ELSE IF a > b THEN 1 ELSE 0

\* JavaScript `x || y` on comparator results.
OrElse(c, d) == IF c # 0 THEN c ELSE d

\* ------------------------------------------------------------------------
\* ids.ts: identifiers as their logical parts
\* ------------------------------------------------------------------------

createFuncId(filePath, startOffset, endOffset) ==
  [filePath |-> filePath, startOffset |-> startOffset, endOffset |-> endOffset]

createStmtId(funcId, statementIndex) ==
  [funcId |-> funcId, statementIndex |-> statementIndex]

createHeapId(allocationSiteId, propertyName) ==
  [site |-> allocationSiteId, propertyName |-> propertyName]

NoFunc == createFuncId("", 0, 0)
NoStmt == createStmtId(NoFunc, -1)
NoHeap == createHeapId(NoStmt, "")
NoVar == ""

createParamVarId(i) == IF i = 0 THEN "p0" ELSE IF i = 1 THEN "p1" ELSE "p2"
createLocalVarId(i) == IF i = 0 THEN "v0" ELSE IF i = 1 THEN "v1" ELSE "v2"

varIdToParts(id) ==
  IF id \in {"p0", "p1", "p2"}
    THEN [kind |-> "p", index |-> IF id = "p0" THEN 0 ELSE IF id = "p1" THEN 1 ELSE 2]
    ELSE [kind |-> "v", index |-> IF id = "v0" THEN 0 ELSE IF id = "v1" THEN 1 ELSE 2]

cmpFuncId(a, b) ==
  OrElse(cmpString(a.filePath, b.filePath),
         OrElse(cmpNumber(a.startOffset, b.startOffset),
                cmpNumber(a.endOffset, b.endOffset)))

cmpStmtId(a, b) ==
  OrElse(cmpFuncId(a.funcId, b.funcId), cmpNumber(a.statementIndex, b.statementIndex))

cmpCallsiteId(a, b) == cmpStmtId(a, b)

cmpVarId(a, b) ==
  LET ap == varIdToParts(a)
      bp == varIdToParts(b)
  IN IF ap.kind # bp.kind THEN (IF ap.kind = "p" THEN -1 ELSE 1)
     ELSE cmpNumber(ap.index, bp.index)

cmpHeapId(a, b) ==
  OrElse(cmpStmtId(a.site, b.site), cmpString(a.propertyName, b.propertyName))

\* ------------------------------------------------------------------------
\* mapped_callgraph.ts: edge comparators
\* ------------------------------------------------------------------------

cmpMappedCallEdge(a, b) ==
  OrElse(cmpFuncId(a.callerFuncId, b.callerFuncId),
         OrElse(cmpFuncId(a.calleeFuncId, b.calleeFuncId),
                cmpCallsiteId(a.callsiteId, b.callsiteId)))

cmpMappedCallEdgeByCallee(a, b) ==
  OrElse(cmpFuncId(a.calleeFuncId, b.calleeFuncId),
         OrElse(cmpFuncId(a.callerFuncId, b.callerFuncId),
                cmpCallsiteId(a.callsiteId, b.callsiteId)))

\* ------------------------------------------------------------------------
\* func_summary.ts: node and edge comparators
\* ------------------------------------------------------------------------

NODE_KIND_ORDER(kind) ==
  CASE kind = "var" -> 0
    [] kind = "call_arg" -> 1
    [] kind = "heap_read" -> 2
    [] kind = "heap_write" -> 3
    [] OTHER -> 4

cmpFuncSummaryNode(a, b) ==
  LET ka == NODE_KIND_ORDER(a.kind)
      kb == NODE_KIND_ORDER(b.kind)
  IN IF ka # kb THEN cmpNumber(ka, kb)
     ELSE IF a.kind = "var" THEN cmpVarId(a.id, b.id)
     ELSE IF a.kind = "call_arg"
       THEN OrElse(cmpCallsiteId(a.callsiteId, b.callsiteId), cmpNumber(a.index, b.index))
     ELSE IF a.kind \in {"heap_read", "heap_write"} THEN cmpHeapId(a.heapId, b.heapId)
     ELSE 0

cmpFuncSummaryEdge(a, b) ==
  OrElse(cmpFuncSummaryNode(a.from, b.from), cmpFuncSummaryNode(a.to, b.to))

\* cheap_static_pass.ts: cmpCheapDepNode / cmpCheapDepEdge order the same node
\* shapes by the same table.
cmpCheapDepNode(a, b) ==
  LET ka == NODE_KIND_ORDER(a.kind)
      kb == NODE_KIND_ORDER(b.kind)
  IN IF ka # kb THEN cmpNumber(ka, kb)
     ELSE IF a.kind = "var" THEN cmpVarId(a.id, b.id)
     ELSE IF a.kind = "call_arg"
       THEN OrElse(cmpCallsiteId(a.callsiteId, b.callsiteId), cmpNumber(a.index, b.index))
     ELSE IF a.kind \in {"heap_read", "heap_write"} THEN cmpHeapId(a.heapId, b.heapId)
     ELSE 0

cmpCheapDepEdge(a, b) ==
  OrElse(cmpCheapDepNode(a.from, b.from), cmpCheapDepNode(a.to, b.to))

\* ------------------------------------------------------------------------
\* flow_fact.ts and call_chain_witness_jsonl.ts: comparators of output lines
\* ------------------------------------------------------------------------

cmpFlowNode(a, b) ==
  LET ka == NODE_KIND_ORDER(a.kind)
      kb == NODE_KIND_ORDER(b.kind)
  IN IF ka # kb THEN cmpNumber(ka, kb)
     ELSE IF a.kind = "var" THEN OrElse(cmpFuncId(a.funcId, b.funcId), cmpVarId(a.id, b.id))
     ELSE IF a.kind = "call_arg"
       THEN OrElse(cmpCallsiteId(a.callsiteId, b.callsiteId), cmpNumber(a.index, b.index))
     ELSE IF a.kind \in {"heap_read", "heap_write"} THEN cmpHeapId(a.heapId, b.heapId)
     ELSE IF a.kind = "return" THEN cmpFuncId(a.funcId, b.funcId)
     ELSE 0

cmpFlowFact(a, b) == OrElse(cmpFlowNode(a.from, b.from), cmpFlowNode(a.to, b.to))

cmpCallChainWitnessStep(a, b) ==
  OrElse(cmpFuncId(a.callerFuncId, b.callerFuncId),
         OrElse(cmpFuncId(a.calleeFuncId, b.calleeFuncId),
                cmpCallsiteId(a.callsiteId, b.callsiteId)))

\* Witnesses of one step each: the first steps decide.
cmpCallChainWitness(a, b) == cmpCallChainWitnessStep(a.steps[1], b.steps[1])

\* ------------------------------------------------------------------------
\* determinism.ts: stableSort
\* ------------------------------------------------------------------------

\* The comparator functions that are passed to stableSort, by name.
Compare(cmpT, a, b) ==
  CASE cmpT = "cmpFuncId" -> cmpFuncId(a, b)
    [] cmpT = "cmpNumber" -> cmpNumber(a, b)
    [] cmpT = "cmpMappedCallEdge" -> cmpMappedCallEdge(a, b)
    [] cmpT = "cmpMappedCallEdgeByCallee" -> cmpMappedCallEdgeByCallee(a, b)
    [] cmpT = "cmpFuncSummaryEdge" -> cmpFuncSummaryEdge(a, b)
    [] cmpT = "cmpCheapDepEdge" -> cmpCheapDepEdge(a, b)
    [] cmpT = "cmpFlowFact" -> cmpFlowFact(a, b)
    [] cmpT = "cmpCallChainWitness" -> cmpCallChainWitness(a, b)
    [] cmpT = "cmpExplainInput" -> cmpFuncId(a.funcId, b.funcId)

RECURSIVE InsertSorted(_, _, _)
\* Puts x after every element that does not compare greater than it.
InsertSorted(sorted, x, cmpT) ==
  IF sorted = << >> THEN << x >>
  ELSE IF Compare(cmpT, x, Head(sorted)) < 0 THEN << x >> \o sorted
  ELSE << Head(sorted) >> \o InsertSorted(Tail(sorted), x, cmpT)

RECURSIVE stableSort(_, _)
\* Sorts by the comparator; elements that compare equal keep their input order.
stableSort(values, cmpT) ==
  IF values = << >> THEN << >>
  ELSE InsertSorted(stableSort(SubSeq(values, 1, Len(values) - 1), cmpT),
                    values[Len(values)], cmpT)

RECURSIVE DedupeSeq(_)
\* Array.from(new Set(values)): first occurrences, in insertion order.
DedupeSeq(values) ==
  IF values = << >> THEN << >>
  ELSE LET init == DedupeSeq(SubSeq(values, 1, Len(values) - 1))
           x == values[Len(values)]
       IN IF \E i \in 1..Len(init) : init[i] = x THEN init ELSE Append(init, x)

SeqToSet(s) == { s[i] : i \in 1..Len(s) }


\* ------------------------------------------------------------------------
\* mapped_callgraph.ts: normalizeMappedCallGraph
\* ------------------------------------------------------------------------

MappedCallEdge(caller, callee, callsiteId) ==
  [callerFuncId |-> caller, calleeFuncId |-> callee, callsiteId |-> callsiteId]

\* TRUE iff assertCallsiteBelongsToCaller does not throw.
CallsiteBelongsToCaller(callsiteId, callerFuncId) ==
  /\ callsiteId.funcId.filePath = callerFuncId.filePath
  /\ callsiteId.funcId.startOffset = callerFuncId.startOffset
  /\ callsiteId.funcId.endOffset = callerFuncId.endOffset


\* A variant that keeps the nodes in insertion order.
NormalizedNodesUnsorted(input) ==
  LET fromEdges(i) == << input.edges[i].callerFuncId, input.edges[i].calleeFuncId >>
      RECURSIVE Flat(_)
      Flat(i) == IF i > Len(input.edges) THEN << >> ELSE fromEdges(i) \o Flat(i + 1)
  IN DedupeSeq(input.nodes \o Flat(1))

\* The canonical node list: Set insertion order (input nodes, then each edge's
\* caller and callee), then stableSort by cmpFuncId.
NormalizedNodes(input) ==
  LET fromEdges(i) == << input.edges[i].callerFuncId, input.edges[i].calleeFuncId >>
      RECURSIVE Flat(_)
      Flat(i) == IF i > Len(input.edges) THEN << >> ELSE fromEdges(i) \o Flat(i + 1)
  IN stableSort(DedupeSeq(input.nodes \o Flat(1)), "cmpFuncId")

\* The callers of f, from the edges sorted by callee: de-duplicated, then
\* stable-sorted by cmpFuncId.
CallersFromEdges(ins) ==
  stableSort(DedupeSeq([i \in 1..Len(ins) |-> ins[i].callerFuncId]), "cmpFuncId")

\* callersByCallee, built from the edges in cmpMappedCallEdgeByCallee order.
IndexCallers(nodes, edgesByCallee) ==
  [f \in SeqToSet(nodes) |->
     CallersFromEdges(SelectSeq(edgesByCallee, LAMBDA e : e.calleeFuncId = f))]

\* The graph of the canonical nodes and edges with its two indexes.
IndexCallGraph(nodes, edges) ==
  [ok |-> TRUE,
   nodes |-> nodes,
   edges |-> edges,
   outgoingByCaller |->
     [f \in SeqToSet(nodes) |-> SelectSeq(edges, LAMBDA e : e.callerFuncId = f)],
   callersByCallee |->
     IndexCallers(nodes, stableSort(edges, "cmpMappedCallEdgeByCallee"))]

\* A variant that does not validate the edges.
normalizeWithoutCallsiteCheck(input) ==
  IndexCallGraph(NormalizedNodes(input),
                 DedupeSeq(stableSort(input.edges, "cmpMappedCallEdge")))

normalizeMappedCallGraph(input) ==
  IF \E i \in 1..Len(input.edges) :
       ~CallsiteBelongsToCaller(input.edges[i].callsiteId, input.edges[i].callerFuncId)
  THEN [ok |-> FALSE, nodes |-> << >>, edges |-> << >>,
        outgoingByCaller |-> << >>, callersByCallee |-> << >>]
  \* De-dupe keeps the first of equal edges; edges are records of their key.
  ELSE IndexCallGraph(NormalizedNodes(input),
                      DedupeSeq(stableSort(input.edges, "cmpMappedCallEdge")))

\* ------------------------------------------------------------------------
\* ir.ts: normalized function IR
\* ------------------------------------------------------------------------

FUNC_IR_SCHEMA_VERSION == 1

RVar(id) == [kind |-> "var", id |-> id]
RUnknown == [kind |-> "unknown", id |-> NoVar]

NamedKey(name) == [kind |-> "named", name |-> name]
DynamicKey == [kind |-> "dynamic", name |-> ""]
NoKey == [kind |-> "none", name |-> ""]

\* One IrStmt; `stmtId` is the callsiteId of a call, `args` holds the src of an
\* assign, the value of a return or member_write, and the args of a call.
IrStmt(kind, stmtId, dst, args, object, property) ==
  [kind |-> kind, stmtId |-> stmtId, dst |-> dst, args |-> args,
   object |-> object, property |-> property]

FuncIR(funcId, params, locals, stmts) ==
  [schemaVersion |-> FUNC_IR_SCHEMA_VERSION, funcId |-> funcId,
   params |-> params, locals |-> locals, stmts |-> stmts]

rvalueToVarId(v) == IF v.kind = "var" THEN v.id ELSE NoVar

\* ------------------------------------------------------------------------
\* cheap_static_pass.ts: runCheapStaticPassV2
\* ------------------------------------------------------------------------

SYNTHETIC_HEAP_ANCHOR_BASE == 1000000000
SYNTHETIC_HEAP_ANCHOR_LOCAL_OFFSET == 500000000

VarIds == {"p0", "p1", "p2", "v0", "v1", "v2"}

syntheticHeapAnchorId(funcId, id) ==
  LET parts == varIdToParts(id)
      offset == IF parts.kind = "p" THEN parts.index
                ELSE SYNTHETIC_HEAP_ANCHOR_LOCAL_OFFSET + parts.index
  IN createStmtId(funcId, SYNTHETIC_HEAP_ANCHOR_BASE + offset)

\* anchorByVar maps every VarId to its anchor, NoStmt when the Map has no entry.
heapAnchorForVar(anchorByVar, funcId, id) ==
  IF anchorByVar[id] # NoStmt THEN anchorByVar[id] ELSE syntheticHeapAnchorId(funcId, id)

propertyKeyToBucketName(p) == IF p.kind = "named" THEN p.name ELSE "*"

\* Nodes of cheap-pass edges and of summary edges (same shape in both).
VarNodeOf(id) ==
  [kind |-> "var", id |-> id, callsiteId |-> NoStmt, index |-> -1, heapId |-> NoHeap]
CallArgNodeOf(callsiteId, index) ==
  [kind |-> "call_arg", id |-> NoVar, callsiteId |-> callsiteId, index |-> index,
   heapId |-> NoHeap]
HeapReadNodeOf(heapId) ==
  [kind |-> "heap_read", id |-> NoVar, callsiteId |-> NoStmt, index |-> -1, heapId |-> heapId]
HeapWriteNodeOf(heapId) ==
  [kind |-> "heap_write", id |-> NoVar, callsiteId |-> NoStmt, index |-> -1, heapId |-> heapId]
ReturnNodeOf ==
  [kind |-> "return", id |-> NoVar, callsiteId |-> NoStmt, index |-> -1, heapId |-> NoHeap]

Edge(from, to) == [from |-> from, to |-> to]

InitialHeapAnchors(ir) ==
  [id \in VarIds |->
     IF id \in SeqToSet(ir.params) \cup SeqToSet(ir.locals)
       THEN syntheticHeapAnchorId(ir.funcId, id) ELSE NoStmt]

\* The edges one statement pushes, given the anchors before it.
CheapStmtEdges(ir, st, anchors) ==
  CASE st.kind = "assign" ->
         IF rvalueToVarId(st.args[1]) # NoVar
           THEN << Edge(VarNodeOf(rvalueToVarId(st.args[1])), VarNodeOf(st.dst)) >>
           ELSE << >>
    [] st.kind = "return" ->
         IF st.args # << >> /\ rvalueToVarId(st.args[1]) # NoVar
           THEN << Edge(VarNodeOf(rvalueToVarId(st.args[1])), ReturnNodeOf) >>
           ELSE << >>
    [] st.kind = "call" ->
         LET idxs == SelectSeq([i \in 1..Len(st.args) |-> i],
                               LAMBDA i : rvalueToVarId(st.args[i]) # NoVar)
         IN [k \in 1..Len(idxs) |->
               Edge(VarNodeOf(rvalueToVarId(st.args[idxs[k]])),
                    CallArgNodeOf(st.stmtId, idxs[k] - 1))]
    [] st.kind = "member_read" ->
         << Edge(HeapReadNodeOf(createHeapId(heapAnchorForVar(anchors, ir.funcId, st.object),
                                             propertyKeyToBucketName(st.property))),
                 VarNodeOf(st.dst)) >>
    [] st.kind = "member_write" ->
         IF rvalueToVarId(st.args[1]) # NoVar
           THEN << Edge(VarNodeOf(rvalueToVarId(st.args[1])),
                        HeapWriteNodeOf(createHeapId(
                          heapAnchorForVar(anchors, ir.funcId, st.object),
                          propertyKeyToBucketName(st.property)))) >>
           ELSE << >>
    [] OTHER -> << >>

\* A variant in which a copy gives its destination a fresh anchor.
CheapStmtAnchorsFreshOnCopy(ir, st, anchors) ==
  CASE st.kind = "call" ->
         IF st.dst # NoVar THEN [anchors EXCEPT ![st.dst] = st.stmtId] ELSE anchors
    [] st.kind \in {"assign", "await", "alloc", "member_read", "select", "short_circuit"} ->
         [anchors EXCEPT ![st.dst] = st.stmtId]
    [] OTHER -> anchors

\* The anchors after one statement, given the anchors before it.
CheapStmtAnchors(ir, st, anchors) ==
  CASE st.kind = "assign" ->
         IF rvalueToVarId(st.args[1]) # NoVar
           THEN [anchors EXCEPT ![st.dst] =
                   heapAnchorForVar(anchors, ir.funcId, rvalueToVarId(st.args[1]))]
           ELSE [anchors EXCEPT ![st.dst] = st.stmtId]
    [] st.kind = "call" ->
         IF st.dst # NoVar THEN [anchors EXCEPT ![st.dst] = st.stmtId] ELSE anchors
    [] st.kind \in {"await", "alloc", "member_read", "select", "short_circuit"} ->
         [anchors EXCEPT ![st.dst] = st.stmtId]
    [] OTHER -> anchors

RECURSIVE CheapPassAfter(_, _)
\* The pass's working state after the first k statements.
CheapPassAfter(ir, k) ==
  IF k = 0 THEN [anchors |-> InitialHeapAnchors(ir), edges |-> << >>]
  ELSE LET before == CheapPassAfter(ir, k - 1)
           st == ir.stmts[k]
       IN [anchors |-> CheapStmtAnchors(ir, st, before.anchors),
           edges |-> before.edges \o CheapStmtEdges(ir, st, before.anchors)]

runCheapStaticPassV2(ir) ==
  [funcId |-> ir.funcId,
   \* A Map keyed by edge key keeps the first insertion's position.
   edges |-> stableSort(DedupeSeq(CheapPassAfter(ir, Len(ir.stmts)).edges),
                        "cmpCheapDepEdge")]

\* ------------------------------------------------------------------------
\* func_summary.ts: normalizeFuncSummary
\* ------------------------------------------------------------------------

FUNC_SUMMARY_SCHEMA_VERSION == 1

DEFAULT_FUNC_SUMMARY_BOUNDS == [maxEdges |-> 25000, maxFanout |-> 5000]

FuncSummary(schemaVersion, funcId, edges) ==
  [schemaVersion |-> schemaVersion, funcId |-> funcId, edges |-> edges]

\* TRUE iff assertNodeAllowedPosition does not throw.
NodeAllowedPosition(kind, position) ==
  IF position = "from" THEN kind \notin {"return", "call_arg", "heap_write"}
  ELSE kind # "heap_read"

CallStmts(ir) == SelectSeq(ir.stmts, LAMBDA st : st.kind = "call")

\* callsiteArgCount.get(callsiteId): -1 when the Map has no entry, else the
\* arg count of the last call statement with that id.
CallsiteArgCount(ir, callsiteId) ==
  LET calls == SelectSeq(CallStmts(ir), LAMBDA st : st.stmtId = callsiteId)
  IN IF calls = << >> THEN -1 ELSE Len(calls[Len(calls)].args)

collectDeclaredHeapIds(baselineEdges) ==
  { n.heapId : n \in { e.from : e \in SeqToSet(baselineEdges) } \cup
                     { e.to : e \in SeqToSet(baselineEdges) } } \ {NoHeap}

\* A variant that accepts every heap bucket.
NodeErrorAcceptingAnyHeapId(n, ir, declaredHeapIds, position) ==
  IF n.kind \notin {"var", "call_arg", "heap_read", "heap_write", "return"}
    THEN "InvalidSchema"
  ELSE IF ~NodeAllowedPosition(n.kind, position) THEN "MisplacedNode"
  ELSE IF n.kind = "var"
    THEN IF n.id \in SeqToSet(ir.params) \cup SeqToSet(ir.locals) THEN "" ELSE "UndeclaredId"
  ELSE IF n.kind = "call_arg"
    THEN IF CallsiteArgCount(ir, n.callsiteId) = -1 THEN "UndeclaredId"
         ELSE IF n.index < 0 THEN "InvalidSchema"
         ELSE IF n.index >= CallsiteArgCount(ir, n.callsiteId) THEN "OutOfRangeIndex"
         ELSE ""
  ELSE ""

\* "" when normalizeFuncSummaryNode accepts the node, else the failure mode.
NodeError(n, ir, declaredHeapIds, position) ==
  IF n.kind \notin {"var", "call_arg", "heap_read", "heap_write", "return"}
    THEN "InvalidSchema"
  ELSE IF ~NodeAllowedPosition(n.kind, position) THEN "MisplacedNode"
  ELSE IF n.kind = "var"
    THEN IF n.id \in SeqToSet(ir.params) \cup SeqToSet(ir.locals) THEN "" ELSE "UndeclaredId"
  ELSE IF n.kind = "call_arg"
    THEN IF CallsiteArgCount(ir, n.callsiteId) = -1 THEN "UndeclaredId"
         ELSE IF n.index < 0 THEN "InvalidSchema"
         ELSE IF n.index >= CallsiteArgCount(ir, n.callsiteId) THEN "OutOfRangeIndex"
         ELSE ""
  ELSE IF n.kind \in {"heap_read", "heap_write"}
    THEN IF n.heapId \notin declaredHeapIds THEN "UndeclaredId"
         ELSE IF n.heapId.site.funcId # ir.funcId THEN "UndeclaredId"
         ELSE ""
  ELSE ""

EdgeError(e, ir, declaredHeapIds) ==
  IF NodeError(e.from, ir, declaredHeapIds, "from") # ""
    THEN NodeError(e.from, ir, declaredHeapIds, "from")
    ELSE NodeError(e.to, ir, declaredHeapIds, "to")

Fanout(edges, from) == Cardinality({ i \in 1..Len(edges) : edges[i].from = from })

\* A variant without the baseline coverage check.
normalizeWithoutBaselineCoverage(value, ir, baselineEdges, bounds) ==
  LET declaredHeapIds == collectDeclaredHeapIds(baselineEdges)
      bad == { i \in 1..Len(value.edges) : EdgeError(value.edges[i], ir, declaredHeapIds) # "" }
      firstBad == CHOOSE i \in bad : \A j \in bad : i <= j
      edges == stableSort(DedupeSeq(value.edges), "cmpFuncSummaryEdge")
      Fail(err) == [ok |-> FALSE, error |-> err,
                    summary |-> FuncSummary(FUNC_SUMMARY_SCHEMA_VERSION, ir.funcId, << >>)]
  IN IF value.schemaVersion # FUNC_SUMMARY_SCHEMA_VERSION THEN Fail("InvalidSchema")
     ELSE IF value.funcId # ir.funcId THEN Fail("InvalidSchema")
     ELSE IF bad # {} THEN Fail(EdgeError(value.edges[firstBad], ir, declaredHeapIds))
     ELSE IF Len(edges) > bounds.maxEdges THEN Fail("BoundsExceeded")
     ELSE IF \E i \in 1..Len(edges) : Fanout(edges, edges[i].from) > bounds.maxFanout
       THEN Fail("BoundsExceeded")
     ELSE [ok |-> TRUE, error |-> "",
           summary |-> FuncSummary(FUNC_SUMMARY_SCHEMA_VERSION, ir.funcId, edges)]

\* [ok, error, summary]: summary is what normalizeFuncSummary returns, error
\* the failure mode when it throws.
normalizeFuncSummary(value, ir, baselineEdges, bounds) ==
  LET declaredHeapIds == collectDeclaredHeapIds(baselineEdges)
      bad == { i \in 1..Len(value.edges) : EdgeError(value.edges[i], ir, declaredHeapIds) # "" }
      firstBad == CHOOSE i \in bad : \A j \in bad : i <= j
      edges == stableSort(DedupeSeq(value.edges), "cmpFuncSummaryEdge")
      Fail(err) == [ok |-> FALSE, error |-> err,
                    summary |-> FuncSummary(FUNC_SUMMARY_SCHEMA_VERSION, ir.funcId, << >>)]
  IN IF value.schemaVersion # FUNC_SUMMARY_SCHEMA_VERSION THEN Fail("InvalidSchema")
     ELSE IF value.funcId # ir.funcId THEN Fail("InvalidSchema")
     ELSE IF bad # {} THEN Fail(EdgeError(value.edges[firstBad], ir, declaredHeapIds))
     ELSE IF Len(edges) > bounds.maxEdges THEN Fail("BoundsExceeded")
     ELSE IF \E i \in 1..Len(edges) : Fanout(edges, edges[i].from) > bounds.maxFanout
       THEN Fail("BoundsExceeded")
     ELSE IF \E i \in 1..Len(baselineEdges) : baselineEdges[i] \notin SeqToSet(edges)
       THEN Fail("BaselineCoverageMissing")
     ELSE [ok |-> TRUE, error |-> "",
           summary |-> FuncSummary(FUNC_SUMMARY_SCHEMA_VERSION, ir.funcId, edges)]

\* intra_proc_summary_pipeline.ts: cheapEdgesToSummaryEdges copies each node's
\* fields; the node shapes coincide.
cheapEdgesToSummaryEdges(edges) == edges

\* ------------------------------------------------------------------------
\* interproc_propagation.ts: local graph of one function
\* ------------------------------------------------------------------------

\* LocalNodeKey: the key strings "r", "v\0id", "a\0callsite\0index", "hr\0heap",
\* "hw\0heap" as records of their parts.
RETURN_NODE ==
  [kind |-> "r", id |-> NoVar, callsiteId |-> NoStmt, index |-> -1, heapId |-> NoHeap]
varNode(id) ==
  [kind |-> "v", id |-> id, callsiteId |-> NoStmt, index |-> -1, heapId |-> NoHeap]
callArgNode(callsiteId, index) ==
  [kind |-> "a", id |-> NoVar, callsiteId |-> callsiteId, index |-> index, heapId |-> NoHeap]
heapReadNode(heapId) ==
  [kind |-> "hr", id |-> NoVar, callsiteId |-> NoStmt, index |-> -1, heapId |-> heapId]
heapWriteNode(heapId) ==
  [kind |-> "hw", id |-> NoVar, callsiteId |-> NoStmt, index |-> -1, heapId |-> heapId]

isCallArgNode(k) == k.kind = "a"
isHeapReadNode(k) == k.kind = "hr"
isHeapWriteNode(k) == k.kind = "hw"

\* Adjacency as the set of <<from, to>> pairs; the neighbour lists are only
\* walked by visited-set searches.
buildBaseAdjV2(summary) ==
  LET FromKey(n) == IF n.kind = "var" THEN varNode(n.id) ELSE heapReadNode(n.heapId)
      ToKey(n) == CASE n.kind = "var" -> varNode(n.id)
                    [] n.kind = "call_arg" -> callArgNode(n.callsiteId, n.index)
                    [] n.kind = "return" -> RETURN_NODE
                    [] OTHER -> heapWriteNode(n.heapId)
  IN { << FromKey(e.from), ToKey(e.to) >> :
         e \in { x \in SeqToSet(summary.edges) :
                   /\ x.from.kind \in {"var", "heap_read"}
                   /\ x.to.kind \in {"var", "call_arg", "return", "heap_write"} } }

\* computeHeapAnchorByVar walks all statements with the cheap pass's anchor
\* rules and returns the anchors after the last one.
computeHeapAnchorByVar(ir) == CheapPassAfter(ir, Len(ir.stmts)).anchors

\* A variant that takes the index of any anchor for a parameter index.
heapIdToParamIndexOfAnyAnchor(id) ==
  LET i == id.site.statementIndex
  IN IF i >= SYNTHETIC_HEAP_ANCHOR_BASE + SYNTHETIC_HEAP_ANCHOR_LOCAL_OFFSET
       THEN i - SYNTHETIC_HEAP_ANCHOR_BASE - SYNTHETIC_HEAP_ANCHOR_LOCAL_OFFSET
     ELSE IF i >= SYNTHETIC_HEAP_ANCHOR_BASE THEN i - SYNTHETIC_HEAP_ANCHOR_BASE
     ELSE i

heapIdToSyntheticParamIndex(id) ==
  LET i == id.site.statementIndex
  IN IF i >= SYNTHETIC_HEAP_ANCHOR_BASE
        /\ i < SYNTHETIC_HEAP_ANCHOR_BASE + SYNTHETIC_HEAP_ANCHOR_LOCAL_OFFSET
       THEN i - SYNTHETIC_HEAP_ANCHOR_BASE
       ELSE -1

\* CallsiteInfoV2 of every call statement, in statement order.
CallsiteInfos(ir) ==
  LET calls == CallStmts(ir)
  IN [k \in 1..Len(calls) |->
        [callsiteId |-> calls[k].stmtId,
         dst |-> calls[k].dst,
         argCount |-> Len(calls[k].args),
         argVars |-> [i \in 1..Len(calls[k].args) |-> rvalueToVarId(calls[k].args[i])]]]

FuncInputV2(funcId, ir, summary) ==
  [funcId |-> funcId, ir |-> ir, baseAdj |-> buildBaseAdjV2(summary),
   callsites |-> CallsiteInfos(ir), heapAnchorByVar |-> computeHeapAnchorByVar(ir)]

\* NoHeap when mapHeapBucketToCaller returns null.
mapHeapBucketToCaller(func, callsite, argIndex, propertyName) ==
  IF argIndex < 0 \/ argIndex >= callsite.argCount THEN NoHeap
  ELSE IF callsite.argVars[argIndex + 1] = NoVar THEN NoHeap
  ELSE createHeapId(heapAnchorForVar(func.heapAnchorByVar, func.funcId,
                                     callsite.argVars[argIndex + 1]),
                    propertyName)

\* stateByFuncId.get(f) of a function that has no entry yet.
NoState ==
  [present |-> FALSE, facts |-> {}, paramReturnIndices |-> {},
   paramHeapWriteEffects |-> {}, heapReadReturnEffects |-> {},
   heapReadHeapWriteEffects |-> {}]

\* flow_fact.ts: FlowNode
FlowNode(kind, funcId, id, callsiteId, index, heapId) ==
  [kind |-> kind, funcId |-> funcId, id |-> id, callsiteId |-> callsiteId,
   index |-> index, heapId |-> heapId]

FLOW_FACT_SCHEMA_VERSION == 1

FlowFact(from, to) == [schemaVersion |-> FLOW_FACT_SCHEMA_VERSION, from |-> from, to |-> to]

\* A variant that looks at the state of one callee of the callsite only.
LiveStateOfOneCallee(callees, stateByFuncId) ==
  LET live == { st \in { stateByFuncId[g] :
                           g \in { c \in callees : c \in DOMAIN stateByFuncId } } :
                  st.present }
  IN IF live = {} THEN {} ELSE { CHOOSE st \in live : TRUE }

\* The states of the callees of a callsite that have been computed.
LiveCalleeStates(callees, stateByFuncId) ==
  { st \in { stateByFuncId[g] : g \in { c \in callees : c \in DOMAIN stateByFuncId } } :
      st.present }

\* A variant whose argument-count guard leaves out the last argument.
ReturnLiftDroppingLastArgument(info, live) ==
  IF info.dst = NoVar THEN {}
  ELSE { << callArgNode(info.callsiteId, idx), varNode(info.dst) >> :
           idx \in { i \in UNION { st.paramReturnIndices : st \in live } :
                       i < info.argCount - 1 } }

\* param -> return of a callee: call_arg(callsite, i) -> var(dst).
ReturnLift(info, live) ==
  IF info.dst = NoVar THEN {}
  ELSE { << callArgNode(info.callsiteId, idx), varNode(info.dst) >> :
           idx \in { i \in UNION { st.paramReturnIndices : st \in live } :
                       i < info.argCount } }

\* A variant that writes into the caller's bucket of the value argument.
HeapWriteLiftIntoValueBucket(func, info, live) ==
  LET effs == { e \in UNION { st.paramHeapWriteEffects : st \in live } :
                  /\ e.valueParamIndex < info.argCount
                  /\ e.objectParamIndex < info.argCount }
  IN { << callArgNode(info.callsiteId, e.valueParamIndex),
          heapWriteNode(mapHeapBucketToCaller(func, info, e.valueParamIndex,
                                              e.propertyName)) >> :
         e \in { x \in effs :
                   mapHeapBucketToCaller(func, info, x.valueParamIndex,
                                         x.propertyName) # NoHeap } }

\* param -> heap_write of a callee: call_arg(callsite, value) -> heap_write in
\* the caller's bucket of the object argument.
HeapWriteLift(func, info, live) ==
  LET effs == { e \in UNION { st.paramHeapWriteEffects : st \in live } :
                  /\ e.valueParamIndex < info.argCount
                  /\ e.objectParamIndex < info.argCount }
  IN { << callArgNode(info.callsiteId, e.valueParamIndex),
          heapWriteNode(mapHeapBucketToCaller(func, info, e.objectParamIndex,
                                              e.propertyName)) >> :
         e \in { x \in effs :
                   mapHeapBucketToCaller(func, info, x.objectParamIndex,
                                         x.propertyName) # NoHeap } }

\* heap_read -> return of a callee: heap_read in the caller's bucket -> var(dst).
HeapReadReturnLift(func, info, live) ==
  IF info.dst = NoVar THEN {}
  ELSE LET effs == { e \in UNION { st.heapReadReturnEffects : st \in live } :
                       e.objectParamIndex < info.argCount }
       IN { << heapReadNode(mapHeapBucketToCaller(func, info, e.objectParamIndex,
                                                  e.propertyName)),
               varNode(info.dst) >> :
              e \in { x \in effs :
                        mapHeapBucketToCaller(func, info, x.objectParamIndex,
                                              x.propertyName) # NoHeap } }

\* A variant that gives the written bucket the property name of the read one.
HeapReadHeapWriteLiftKeepingReadProperty(func, info, live) ==
  LET effs == { e \in UNION { st.heapReadHeapWriteEffects : st \in live } :
                  /\ e.readObjectParamIndex < info.argCount
                  /\ e.writeObjectParamIndex < info.argCount }
  IN { << heapReadNode(mapHeapBucketToCaller(func, info, e.readObjectParamIndex,
                                             e.readPropertyName)),
          heapWriteNode(mapHeapBucketToCaller(func, info, e.writeObjectParamIndex,
                                              e.readPropertyName)) >> :
         e \in { x \in effs :
                   /\ mapHeapBucketToCaller(func, info, x.readObjectParamIndex,
                                            x.readPropertyName) # NoHeap
                   /\ mapHeapBucketToCaller(func, info, x.writeObjectParamIndex,
                                            x.readPropertyName) # NoHeap } }

\* heap_read -> heap_write of a callee, both mapped to the caller's buckets.
HeapReadHeapWriteLift(func, info, live) ==
  LET effs == { e \in UNION { st.heapReadHeapWriteEffects : st \in live } :
                  /\ e.readObjectParamIndex < info.argCount
                  /\ e.writeObjectParamIndex < info.argCount }
  IN { << heapReadNode(mapHeapBucketToCaller(func, info, e.readObjectParamIndex,
                                             e.readPropertyName)),
          heapWriteNode(mapHeapBucketToCaller(func, info, e.writeObjectParamIndex,
                                              e.writePropertyName)) >> :
         e \in { x \in effs :
                   /\ mapHeapBucketToCaller(func, info, x.readObjectParamIndex,
                                            x.readPropertyName) # NoHeap
                   /\ mapHeapBucketToCaller(func, info, x.writeObjectParamIndex,
                                            x.writePropertyName) # NoHeap } }

\* A variant that, while a callee of the callsite has no state yet, assumes
\* every argument reaches the callee's return.
LiftedEdgesAssumingUnknownCallees(func, info, callees, stateByFuncId) ==
  LET live == LiveCalleeStates(callees, stateByFuncId)
      unknown == \E g \in callees :
                   g \notin DOMAIN stateByFuncId \/ ~stateByFuncId[g].present
  IN (IF unknown /\ info.dst # NoVar
        THEN { << callArgNode(info.callsiteId, i), varNode(info.dst) >> :
                 i \in 0..(info.argCount - 1) }
        ELSE ReturnLift(info, live))
     \cup HeapWriteLift(func, info, live)
     \cup HeapReadReturnLift(func, info, live)
     \cup HeapReadHeapWriteLift(func, info, live)

\* The edges lifted at one callsite from the current states of its callees.
LiftedEdges(func, info, callees, stateByFuncId) ==
  LET live == LiveCalleeStates(callees, stateByFuncId)
  IN ReturnLift(info, live)
     \cup HeapWriteLift(func, info, live)
     \cup HeapReadReturnLift(func, info, live)
     \cup HeapReadHeapWriteLift(func, info, live)

\* extraAdj of computeFuncStateV2: the lifted edges of all callsites.  A
\* callsite id that occurs twice in func.callsites is one Map entry (the last).
ExtraAdj(func, calleesByCallsite, stateByFuncId) ==
  UNION { LiftedEdges(func, func.callsites[k],
                      IF func.callsites[k].callsiteId \in DOMAIN calleesByCallsite
                        THEN calleesByCallsite[func.callsites[k].callsiteId] ELSE {},
                      stateByFuncId) :
            k \in { j \in 1..Len(func.callsites) :
                      \A l \in (j + 1)..Len(func.callsites) :
                        func.callsites[l].callsiteId # func.callsites[j].callsiteId } }

RECURSIVE Visited(_, _)
\* The visited set of the breadth-first search once its queue is empty.
Visited(seen, adj) ==
  LET next == seen \cup { e[2] : e \in { x \in adj : x[1] \in seen } }
  IN IF next = seen THEN seen ELSE Visited(next, adj)

\* The facts one search emits: one per visited return, call_arg or heap_write.
EmittedFacts(funcId, from, visited) ==
  { FlowFact(from,
             CASE cur.kind = "r" ->
                    FlowNode("return", funcId, NoVar, NoStmt, -1, NoHeap)
               [] cur.kind = "a" ->
                    FlowNode("call_arg", NoFunc, NoVar, cur.callsiteId, cur.index, NoHeap)
               [] OTHER ->
                    FlowNode("heap_write", NoFunc, NoVar, NoStmt, -1, cur.heapId)) :
      cur \in { n \in visited : n = RETURN_NODE \/ isCallArgNode(n) \/ isHeapWriteNode(n) } }

\* The effects that computeFuncStateV2 extracts from a function's facts.
ParamReturnIndices(facts) ==
  { varIdToParts(f.from.id).index :
      f \in { x \in facts : x.from.kind = "var" /\ x.to.kind = "return" } }

ParamHeapWriteEffects(facts, paramCount) ==
  { [valueParamIndex |-> varIdToParts(f.from.id).index,
     objectParamIndex |-> heapIdToSyntheticParamIndex(f.to.heapId),
     propertyName |-> f.to.heapId.propertyName] :
      f \in { x \in facts :
                /\ x.from.kind = "var" /\ x.to.kind = "heap_write"
                /\ varIdToParts(x.from.id).kind = "p"
                /\ heapIdToSyntheticParamIndex(x.to.heapId) # -1
                /\ heapIdToSyntheticParamIndex(x.to.heapId) < paramCount } }

HeapReadReturnEffects(facts, paramCount) ==
  { [objectParamIndex |-> heapIdToSyntheticParamIndex(f.from.heapId),
     propertyName |-> f.from.heapId.propertyName] :
      f \in { x \in facts :
                /\ x.from.kind = "heap_read" /\ x.to.kind = "return"
                /\ heapIdToSyntheticParamIndex(x.from.heapId) # -1
                /\ heapIdToSyntheticParamIndex(x.from.heapId) < paramCount } }

HeapReadHeapWriteEffects(facts, paramCount) ==
  { [readObjectParamIndex |-> heapIdToSyntheticParamIndex(f.from.heapId),
     readPropertyName |-> f.from.heapId.propertyName,
     writeObjectParamIndex |-> heapIdToSyntheticParamIndex(f.to.heapId),
     writePropertyName |-> f.to.heapId.propertyName] :
      f \in { x \in facts :
                /\ x.from.kind = "heap_read" /\ x.to.kind = "heap_write"
                /\ heapIdToSyntheticParamIndex(x.from.heapId) # -1
                /\ heapIdToSyntheticParamIndex(x.to.heapId) # -1
                /\ heapIdToSyntheticParamIndex(x.from.heapId) < paramCount
                /\ heapIdToSyntheticParamIndex(x.to.heapId) < paramCount } }

\* A variant that takes its heap_read sources from the base adjacency alone.
ComputeFactsFromBaseHeapReads(func, calleesByCallsite, stateByFuncId) ==
  LET adj == func.baseAdj \cup ExtraAdj(func, calleesByCallsite, stateByFuncId)
      heapReadSources == { e[1] : e \in { x \in func.baseAdj : isHeapReadNode(x[1]) } }
  IN UNION { EmittedFacts(func.funcId,
                          FlowNode("var", func.funcId, paramId, NoStmt, -1, NoHeap),
                          Visited({varNode(paramId)}, adj)) :
               paramId \in SeqToSet(func.ir.params) }
     \cup
     UNION { EmittedFacts(func.funcId,
                          FlowNode("heap_read", NoFunc, NoVar, NoStmt, -1, src.heapId),
                          Visited({src}, adj)) :
               src \in heapReadSources }

\* The facts computeFuncStateV2 finds: searches from every parameter and from
\* every heap_read that is a source in the base or lifted adjacency.
ComputeFacts(func, calleesByCallsite, stateByFuncId) ==
  LET adj == func.baseAdj \cup ExtraAdj(func, calleesByCallsite, stateByFuncId)
      heapReadSources == { e[1] : e \in { x \in adj : isHeapReadNode(x[1]) } }
  IN UNION { EmittedFacts(func.funcId,
                          FlowNode("var", func.funcId, paramId, NoStmt, -1, NoHeap),
                          Visited({varNode(paramId)}, adj)) :
               paramId \in SeqToSet(func.ir.params) }
     \cup
     UNION { EmittedFacts(func.funcId,
                          FlowNode("heap_read", NoFunc, NoVar, NoStmt, -1, src.heapId),
                          Visited({src}, adj)) :
               src \in heapReadSources }

\* facts, factKeys and the effect lists are sorted lists without repetition
\* under total orders; each is held as the set of its elements.
computeFuncStateV2(func, calleesByCallsite, stateByFuncId) ==
  LET facts == ComputeFacts(func, calleesByCallsite, stateByFuncId)
      paramCount == Len(func.ir.params)
  IN [present |-> TRUE,
      facts |-> facts,
      paramReturnIndices |-> ParamReturnIndices(facts),
      paramHeapWriteEffects |-> ParamHeapWriteEffects(facts, paramCount),
      heapReadReturnEffects |-> HeapReadReturnEffects(facts, paramCount),
      heapReadHeapWriteEffects |-> HeapReadHeapWriteEffects(facts, paramCount)]

\* runInterprocPropagationV2: CallerFuncId -> CallsiteId -> set of CalleeFuncIds.
CalleesByCallsite(graph, callerFuncId) ==
  LET outs == IF callerFuncId \in DOMAIN graph.outgoingByCaller
                THEN graph.outgoingByCaller[callerFuncId] ELSE << >>
  IN [cs \in { outs[i].callsiteId : i \in 1..Len(outs) } |->
        { outs[i].calleeFuncId : i \in { j \in 1..Len(outs) : outs[j].callsiteId = cs } }]

\* ------------------------------------------------------------------------
\* The programs that are explored
\* ------------------------------------------------------------------------

\* FuncIds, in an order that is not the canonical one.
FuncUniverse ==
  << createFuncId("src/b.ts", 0, 10), createFuncId("src/a.ts", 20, 30),
     createFuncId("src/a.ts", 0, 10) >>

\* Function bodies, by name:
\*   empty    function f() {}
\*   id       function f(y) { return y; }
\*   setX     function f(obj, val) { obj.x = val; }
\*   getX     function f(obj) { const v = obj.x; return v; }
\*   copy     function f(a, b) { const v = a.x; b.y = v; }
\*   call1    function f(x) { const v = g(x); return v; }
\*   call2    function f(x, y) { const v = g(x, y); return v; }
\*   callStmt function f(x, y) { g(x, y); }
LeafTemplates == {"empty", "id", "setX", "getX", "copy"}
CallTemplates == {"call1", "call2", "callStmt"}
Templates == LeafTemplates \cup CallTemplates

S(f, i) == createStmtId(f, i)

TemplateIr(t, f) ==
  CASE t = "empty" -> FuncIR(f, << >>, << >>, << >>)
    [] t = "id" ->
         FuncIR(f, << "p0" >>, << >>,
                << IrStmt("return", S(f, 0), NoVar, << RVar("p0") >>, NoVar, NoKey) >>)
    [] t = "setX" ->
         FuncIR(f, << "p0", "p1" >>, << >>,
                << IrStmt("member_write", S(f, 0), NoVar, << RVar("p1") >>, "p0",
                          NamedKey("x")) >>)
    [] t = "getX" ->
         FuncIR(f, << "p0" >>, << "v0" >>,
                << IrStmt("member_read", S(f, 0), "v0", << >>, "p0", NamedKey("x")),
                   IrStmt("return", S(f, 1), NoVar, << RVar("v0") >>, NoVar, NoKey) >>)
    [] t = "copy" ->
         FuncIR(f, << "p0", "p1" >>, << "v0" >>,
                << IrStmt("member_read", S(f, 0), "v0", << >>, "p0", NamedKey("x")),
                   IrStmt("member_write", S(f, 1), NoVar, << RVar("v0") >>, "p1",
                          NamedKey("y")) >>)
    [] t = "call1" ->
         FuncIR(f, << "p0" >>, << "v0" >>,
                << IrStmt("call", S(f, 0), "v0", << RVar("p0") >>, NoVar, NoKey),
                   IrStmt("return", S(f, 1), NoVar, << RVar("v0") >>, NoVar, NoKey) >>)
    [] t = "call2" ->
         FuncIR(f, << "p0", "p1" >>, << "v0" >>,
                << IrStmt("call", S(f, 0), "v0", << RVar("p0"), RVar("p1") >>, NoVar, NoKey),
                   IrStmt("return", S(f, 1), NoVar, << RVar("v0") >>, NoVar, NoKey) >>)
    [] t = "callStmt" ->
         FuncIR(f, << "p0", "p1" >>, << >>,
                << IrStmt("call", S(f, 0), NoVar, << RVar("p0"), RVar("p1") >>, NoVar,
                          NoKey) >>)

\* The summary the cheap-pass-only pipeline computes for an IR.
BaselineSummary(ir) ==
  normalizeFuncSummary(
    FuncSummary(FUNC_SUMMARY_SCHEMA_VERSION, ir.funcId,
                cheapEdgesToSummaryEdges(runCheapStaticPassV2(ir).edges)),
    ir, cheapEdgesToSummaryEdges(runCheapStaticPassV2(ir).edges),
    DEFAULT_FUNC_SUMMARY_BOUNDS).summary

RECURSIVE SetToSeq(_)
SetToSeq(set) ==
  IF set = {} THEN << >>
  ELSE LET x == CHOOSE y \in set : TRUE IN << x >> \o SetToSeq(set \ {x})

\* All orderings of a finite set.
Orderings(set) ==
  { q \in [1..Cardinality(set) -> set] : \A i, j \in 1..Cardinality(set) : i # j => q[i] # q[j] }

\* The call edges of a program: every function with a call template calls,
\* from its one callsite, each of the callees chosen for it.
ProgramEdges(funcs, template, callees) ==
  UNION { { MappedCallEdge(f, g, S(f, 0)) : g \in callees[f] } :
            f \in { x \in funcs : template[x] \in CallTemplates } }

\* ------------------------------------------------------------------------
\* func_summary_cache.ts and the cheap-pass-only summary pipeline
\* ------------------------------------------------------------------------

\* The keys of the cache entries that are explored: normalized-IR hashes.
CacheKeys == {"k1", "k2"}

\* The functions the pipeline is asked about.
CacheIrA == TemplateIr("id", FuncUniverse[1])
CacheIrB == TemplateIr("getX", FuncUniverse[2])
CacheIrs == { CacheIrA, CacheIrB }

\* A summary of ir other than the baseline: the baseline edges and p0 -> return.
ExtraSummary(ir) ==
  normalizeFuncSummary(
    FuncSummary(FUNC_SUMMARY_SCHEMA_VERSION, ir.funcId,
                << Edge(VarNodeOf("p0"), ReturnNodeOf) >> \o BaselineSummary(ir).edges),
    ir, BaselineSummary(ir).edges, DEFAULT_FUNC_SUMMARY_BOUNDS).summary

\* A summary object that is not normalized: the edges of ExtraSummary in
\* another order, one of them twice.
UnnormalizedSummary(ir) ==
  FuncSummary(FUNC_SUMMARY_SCHEMA_VERSION, ir.funcId,
              [i \in 1..Len(ExtraSummary(ir).edges) |->
                 ExtraSummary(ir).edges[Len(ExtraSummary(ir).edges) + 1 - i]]
              \o << ExtraSummary(ir).edges[1] >>)

\* A summary object that lacks a baseline edge: the baseline without its
\* first edge.
PartialSummary(ir) ==
  FuncSummary(FUNC_SUMMARY_SCHEMA_VERSION, ir.funcId, Tail(BaselineSummary(ir).edges))

\* The normalized summaries that are handed to the cache.
CacheSummaries ==
  { BaselineSummary(ir) : ir \in CacheIrs } \cup { ExtraSummary(ir) : ir \in CacheIrs }

\* JSON values: the summary object and null.  A node object has the keys of
\* its kind only: {kind, id}, {kind, callsiteId, index} or {kind}.
JsonNull == [t |-> "null", schemaVersion |-> 0, funcId |-> NoFunc, edges |-> << >>]

\* A variant that omits every key whose value is falsy (the index 0) instead
\* of only the keys whose value is undefined.
JsonOfNodeOmittingFalsyValues(n) ==
  CASE n.kind = "var" -> [kind |-> "var", id |-> n.id]
    [] n.kind = "call_arg" ->
         IF n.index = 0 THEN [kind |-> "call_arg", callsiteId |-> n.callsiteId]
         ELSE [kind |-> "call_arg", callsiteId |-> n.callsiteId, index |-> n.index]
    [] n.kind \in {"heap_read", "heap_write"} -> [kind |-> n.kind, id |-> n.heapId]
    [] OTHER -> [kind |-> n.kind]

JsonOfNode(n) ==
  CASE n.kind = "var" -> [kind |-> "var", id |-> n.id]
    [] n.kind = "call_arg" ->
         [kind |-> "call_arg", callsiteId |-> n.callsiteId, index |-> n.index]
    [] n.kind \in {"heap_read", "heap_write"} -> [kind |-> n.kind, id |-> n.heapId]
    [] OTHER -> [kind |-> n.kind]

JsonOfSummary(summary) ==
  [t |-> "object", schemaVersion |-> summary.schemaVersion, funcId |-> summary.funcId,
   edges |-> [i \in 1..Len(summary.edges) |->
                [from |-> JsonOfNode(summary.edges[i].from),
                 to |-> JsonOfNode(summary.edges[i].to)]]]

\* The node normalizeFuncSummaryNode reads from a node object: the keys of the
\* object's kind.
\* A key the object lacks reads as undefined: the absent id or index.
NodeOfJson(j) ==
  LET has(k) == k \in DOMAIN j
  IN CASE j.kind = "var" -> VarNodeOf(IF has("id") THEN j.id ELSE NoVar)
       [] j.kind = "call_arg" ->
            CallArgNodeOf(IF has("callsiteId") THEN j.callsiteId ELSE NoStmt,
                          IF has("index") THEN j.index ELSE -1)
       [] j.kind = "heap_read" -> HeapReadNodeOf(IF has("id") THEN j.id ELSE NoHeap)
       [] j.kind = "heap_write" -> HeapWriteNodeOf(IF has("id") THEN j.id ELSE NoHeap)
       [] OTHER -> [ReturnNodeOf EXCEPT !.kind = j.kind]

\* File contents: JSON text with or without a trailing newline, or text that
\* is not JSON.
JsonText(json, newline) == [text |-> "json", json |-> json, newline |-> newline]
GarbageText == [text |-> "garbage", json |-> JsonNull, newline |-> FALSE]
NoText == [text |-> "none", json |-> JsonNull, newline |-> FALSE]

\* serializeNormalizedFuncSummary: the canonical JSON text of the summary.
serializeNormalizedFuncSummary(summary) == JsonText(JsonOfSummary(summary), FALSE)

\* `${serializeNormalizedFuncSummary(summary)}\n`
CacheFileText(summary) ==
  [serializeNormalizedFuncSummary(summary) EXCEPT !.newline = TRUE]

\* JSON.parse: [ok, value]; trailing whitespace is skipped.
JsonParse(raw) ==
  IF raw.text = "json" THEN [ok |-> TRUE, value |-> raw.json]
  ELSE [ok |-> FALSE, value |-> JsonNull]

\* The parsed value read as a FuncSummary by normalizeFuncSummary.
SummaryOfJson(json) ==
  FuncSummary(json.schemaVersion, json.funcId,
              [i \in 1..Len(json.edges) |->
                 Edge(NodeOfJson(json.edges[i].from), NodeOfJson(json.edges[i].to))])

\* The file system under the cache root: the directory chain of the entries
\* ("missing", "dir", or "file" when a regular file is in the way), the node at
\* each entry path and the node at each sibling `*.tmp` path.
AbsentNode == [kind |-> "absent", content |-> NoText, readable |-> FALSE]
DirNode == [kind |-> "dir", content |-> NoText, readable |-> FALSE]
FileNode(content, readable) == [kind |-> "file", content |-> content, readable |-> readable]

EmptyFs ==
  [dir |-> "missing", entries |-> [k \in CacheKeys |-> AbsentNode],
   tmp |-> [k \in CacheKeys |-> AbsentNode]]

\* The result of a cache operation.
OpResult(status, error, value, cacheHit) ==
  [status |-> status, error |-> error, value |-> value, cacheHit |-> cacheHit]

\* readFileSync(p, "utf8"): [error, raw]; error is "" on success.
ReadFileSync(f, key) ==
  IF f.dir = "missing" THEN [error |-> "ENOENT", raw |-> NoText]
  ELSE IF f.dir = "file" THEN [error |-> "ENOTDIR", raw |-> NoText]
  ELSE IF f.entries[key].kind = "absent" THEN [error |-> "ENOENT", raw |-> NoText]
  ELSE IF f.entries[key].kind = "dir" THEN [error |-> "EISDIR", raw |-> NoText]
  ELSE IF ~f.entries[key].readable THEN [error |-> "EACCES", raw |-> NoText]
  ELSE [error |-> "", raw |-> f.entries[key].content]

\* A variant that reports every failed read as an absent entry.
readTreatingErrorsAsAbsent(f, key) ==
  LET rd == ReadFileSync(f, key)
  IN IF rd.error # "" THEN OpResult("absent", "", JsonNull, FALSE)
     ELSE IF ~JsonParse(rd.raw).ok THEN OpResult("error", "ParseError", JsonNull, FALSE)
     ELSE OpResult("ok", "", JsonParse(rd.raw).value, FALSE)

\* readFuncSummaryFromCache: "absent" is the undefined it returns.
readFuncSummaryFromCache(f, key) ==
  LET rd == ReadFileSync(f, key)
  IN IF rd.error = "ENOENT" THEN OpResult("absent", "", JsonNull, FALSE)
     ELSE IF rd.error # "" THEN OpResult("error", rd.error, JsonNull, FALSE)
     ELSE IF ~JsonParse(rd.raw).ok THEN OpResult("error", "ParseError", JsonNull, FALSE)
     ELSE OpResult("ok", "", JsonParse(rd.raw).value, FALSE)

\* [fs, result] of a write.
WriteOutcome(f, status, error) ==
  [fs |-> f, result |-> OpResult(status, error, JsonNull, FALSE)]

\* writeFileSync(tmp, json) followed by renameSync(tmp, p).
WriteTmpAndRename(f, key, json) ==
  LET written == [f EXCEPT !.tmp[key] = FileNode(json, TRUE)]
  IN IF f.tmp[key].kind = "dir" THEN WriteOutcome(f, "error", "EISDIR")
     ELSE IF f.entries[key].kind = "dir" THEN WriteOutcome(written, "error", "EISDIR")
     ELSE WriteOutcome([written EXCEPT !.tmp[key] = AbsentNode,
                                       !.entries[key] = FileNode(json, TRUE)],
                       "ok", "")

\* A variant without the check for an existing entry.
writeWithoutExistenceCheck(f, key, summary) ==
  IF f.dir = "file" THEN WriteOutcome(f, "error", "EEXIST")
  ELSE WriteTmpAndRename([f EXCEPT !.dir = "dir"], key, CacheFileText(summary))

\* writeFuncSummaryToCache
writeFuncSummaryToCache(f, key, summary) ==
  IF f.dir = "file" THEN WriteOutcome(f, "error", "EEXIST")
  ELSE LET made == [f EXCEPT !.dir = "dir"]
       IN IF made.entries[key].kind = "file" THEN WriteOutcome(made, "ok", "")
          ELSE WriteTmpAndRename(made, key, CacheFileText(summary))

\* [fs, result] of the pipeline; result.value is the summary it returns.
\* written is the text handed to writeFuncSummaryToCache ("none" text when it is
\* not called).
PipelineOutcome(f, status, error, summary, cacheHit, written) ==
  [fs |-> f, result |-> OpResult(status, error, JsonOfSummary(summary), cacheHit),
   summary |-> summary, written |-> written]

\* The cheap-pass edges of ir as summary edges: the baseline of its summary.
BaselineEdges(ir) == cheapEdgesToSummaryEdges(runCheapStaticPassV2(ir).edges)

\* The summary the pipeline computes from the baseline edges, normalized.
NormalizeComputed(ir, baselineEdges) ==
  normalizeFuncSummary(FuncSummary(FUNC_SUMMARY_SCHEMA_VERSION, ir.funcId, baselineEdges),
                       ir, baselineEdges, DEFAULT_FUNC_SUMMARY_BOUNDS)

\* The outcome once the computed summary has been handed to the cache write wr.
StoredOutcome(computed, wr) ==
  IF wr.result.status = "error"
    THEN PipelineOutcome(wr.fs, "error", wr.result.error, computed.summary, FALSE,
                         CacheFileText(computed.summary))
  ELSE PipelineOutcome(wr.fs, "ok", "", computed.summary, FALSE,
                       CacheFileText(computed.summary))

\* A computed summary is written to the cache unless its normalization failed.
StoreComputed(f, key, computed) ==
  IF ~computed.ok
    THEN PipelineOutcome(f, "error", computed.error, computed.summary, FALSE, NoText)
  ELSE StoredOutcome(computed, writeFuncSummaryToCache(f, key, computed.summary))

\* The miss branch of getOrComputeFuncSummaryCheapPassOnly.
ComputeAndWrite(f, ir, key) ==
  StoreComputed(f, key, NormalizeComputed(ir, BaselineEdges(ir)))

\* A variant that recomputes the summary whatever the cache holds.
getOrComputeIgnoringCachedSummary(f, ir, key) ==
  LET cached == readFuncSummaryFromCache(f, key)
  IN IF cached.status = "error"
       THEN PipelineOutcome(f, "error", cached.error, BaselineSummary(ir), FALSE, NoText)
     ELSE ComputeAndWrite(f, ir, key)

\* A variant that returns the cached value as it was read.
getOrComputeTrustingCachedSummary(f, ir, key) ==
  LET cached == readFuncSummaryFromCache(f, key)
  IN IF cached.status = "error"
       THEN PipelineOutcome(f, "error", cached.error, BaselineSummary(ir), FALSE, NoText)
     ELSE IF cached.status = "ok" /\ cached.value.t = "object"
       THEN PipelineOutcome(f, "ok", "", SummaryOfJson(cached.value), TRUE, NoText)
     ELSE ComputeAndWrite(f, ir, key)

\* The hit branch: the cached object after normalizeFuncSummary.
PipelineHit(f, summary) ==
  IF summary.ok THEN PipelineOutcome(f, "ok", "", summary.summary, TRUE, NoText)
  ELSE PipelineOutcome(f, "error", summary.error, summary.summary, FALSE, NoText)

\* The pipeline once the cache has been read.
PipelineAfterRead(f, ir, key, cached) ==
  IF cached.status = "error"
    THEN PipelineOutcome(f, "error", cached.error, BaselineSummary(ir), FALSE, NoText)
  ELSE IF cached.status = "ok" /\ cached.value.t = "object"
    THEN PipelineHit(f, normalizeFuncSummary(SummaryOfJson(cached.value), ir,
                                             BaselineEdges(ir),
                                             DEFAULT_FUNC_SUMMARY_BOUNDS))
  ELSE ComputeAndWrite(f, ir, key)

\* getOrComputeFuncSummaryCheapPassOnly, with key = hashNormalizedFuncIr(ir).
getOrComputeFuncSummaryCheapPassOnly(f, ir, key) ==
  PipelineAfterRead(f, ir, key, readFuncSummaryFromCache(f, key))

\* ------------------------------------------------------------------------
\* State
\* ------------------------------------------------------------------------

VARIABLES
  input,            \* MappedCallGraphInput handed to normalizeMappedCallGraph
  opts,             \* FixpointOptions: maxSteps and initial, each optional
  irByFuncId,       \* FuncId -> NormalizedFuncIR
  summaryByFuncId,  \* FuncId -> NormalizedFuncSummary
  run,              \* the propagation run: driver locals and stateByFuncId
  input2,           \* a second presentation of the same graph
  opts2,            \* the options of the second run
  run2,             \* the second run
  ticks,            \* the number of transitions taken so far
  fs,               \* the file system under the cache root
  fs0,              \* the file system before the first operation
  irHash,           \* hashNormalizedFuncIr on CacheIrs
  firstWrite,       \* per key, the text of the first write call ("none" text before)
  last,             \* the last cache operation: its arguments, result and the fs before it
  cli,              \* the analyze commands run so far and the output files
  call,             \* the last call of a function of the library: its input and what it returned
  procs             \* the processes that share the cache directory, each at a step of its call

fixVars == << input, opts, irByFuncId, summaryByFuncId, run, input2, opts2, run2 >>

cacheVars == << fs, fs0, irHash, firstWrite, last >>

libVars == << call, procs >>

vars == << fixVars, ticks, cacheVars, cli, libVars >>

\* No function of the library has been called on its own, and no process
\* shares the cache directory.
NoCall == [op |-> "none", input |-> << >>, output |-> << >>]
NoProcs == << >>

\* ------------------------------------------------------------------------
\* fixpoint.ts: runDeterministicFixpoint, driven by the step function of
\* interproc_propagation.ts: runInterprocPropagationV2
\* ------------------------------------------------------------------------

FixpointOptions(maxStepsDefined, maxSteps, initialDefined, initial) ==
  [maxStepsDefined |-> maxStepsDefined, maxSteps |-> maxSteps,
   initialDefined |-> initialDefined, initial |-> initial]

NoOptions == FixpointOptions(FALSE, 0, FALSE, << >>)

EmptyGraph == normalizeMappedCallGraph([nodes |-> << >>, edges |-> << >>])

\* A run that has not started.  `trace` records the arguments of the step calls
\* and `skips` counts the dependents that were not enqueued because they were
\* already queued; neither is read by the run.
NewRun ==
  [pc |-> "start", error |-> "", graph |-> EmptyGraph, queue |-> << >>, head |-> 0,
   inQueue |-> {}, steps |-> 0, changedSteps |-> 0, stateByFuncId |-> << >>,
   trace |-> << >>, skips |-> 0]

Threw(r, error) == [r EXCEPT !.pc = "threw", !.error = error]

\* The first node, in graph.nodes order, that has no IR or no summary; 0 when
\* every node has both.
FirstIncompleteNode(graph, irs, sums) ==
  LET incomplete == { i \in 1..Len(graph.nodes) :
                        graph.nodes[i] \notin DOMAIN irs \/ graph.nodes[i] \notin DOMAIN sums }
  IN IF incomplete = {} THEN 0
     ELSE CHOOSE i \in incomplete : \A j \in incomplete : i <= j

\* A variant that leaves the nodes without IR or summary out of the run.
StartRunSkippingIncompleteNodes(r, in, o, irs, sums) ==
  LET graph == normalizeMappedCallGraph(in)
      nodeSet == SeqToSet(graph.nodes)
      complete == { f \in nodeSet : f \in DOMAIN irs /\ f \in DOMAIN sums }
      initial == IF o.initialDefined THEN stableSort(DedupeSeq(o.initial), "cmpFuncId")
                 ELSE graph.nodes
      seeded == SelectSeq(initial, LAMBDA f : f \in complete)
  IN IF ~graph.ok THEN Threw(r, "CallsiteNotInCaller")
     ELSE IF o.maxStepsDefined /\ o.maxSteps <= 0 THEN Threw(r, "InvalidMaxSteps")
     ELSE IF \E i \in 1..Len(initial) : initial[i] \notin nodeSet
       THEN Threw(r, "InitialNotInGraph")
     ELSE [r EXCEPT !.pc = "loop", !.graph = graph, !.queue = seeded,
                    !.inQueue = SeqToSet(seeded),
                    !.stateByFuncId = [f \in nodeSet |-> NoState]]

\* The queue is seeded with the initial nodes, which must be nodes of the graph.
SeedRun(r, graph, initial) ==
  IF \E i \in 1..Len(initial) : initial[i] \notin SeqToSet(graph.nodes)
    THEN Threw(r, "InitialNotInGraph")
  ELSE [r EXCEPT !.pc = "loop", !.graph = graph, !.queue = initial,
                 !.inQueue = SeqToSet(initial),
                 !.stateByFuncId = [f \in SeqToSet(graph.nodes) |-> NoState]]

\* runInterprocPropagationV2 on the normalized graph, bad being the first
\* node without IR or without summary.
StartOnGraph(r, graph, o, irs, bad) ==
  IF ~graph.ok THEN Threw(r, "CallsiteNotInCaller")
  ELSE IF bad # 0 /\ graph.nodes[bad] \notin DOMAIN irs THEN Threw(r, "MissingIR")
  ELSE IF bad # 0 THEN Threw(r, "MissingSummary")
  ELSE IF o.maxStepsDefined /\ o.maxSteps <= 0 THEN Threw(r, "InvalidMaxSteps")
  ELSE SeedRun(r, graph,
               IF o.initialDefined THEN stableSort(DedupeSeq(o.initial), "cmpFuncId")
               ELSE graph.nodes)

\* The state of the run once its inputs are known, from the normalized graph.
StartChecked(r, graph, o, irs, sums) ==
  StartOnGraph(r, graph, o, irs, FirstIncompleteNode(graph, irs, sums))

\* The graph is normalized, the per-function inputs are built in graph.nodes
\* order (the first node without IR or without summary is fatal, its IR being
\* looked at first), the options are validated and the queue is seeded.
StartRun(r, in, o, irs, sums) ==
  StartChecked(r, normalizeMappedCallGraph(in), o, irs, sums)

\* A variant that takes the callees of n for its dependents.
DependentsAreCallees(graph, n) ==
  LET outs == IF n \in DOMAIN graph.outgoingByCaller THEN graph.outgoingByCaller[n] ELSE << >>
  IN stableSort(DedupeSeq([i \in 1..Len(outs) |-> outs[i].calleeFuncId]), "cmpFuncId")

\* The dependents of n: graph.callersByCallee.get(n) ?? [], stable-sorted.
Dependents(graph, n) ==
  stableSort(IF n \in DOMAIN graph.callersByCallee THEN graph.callersByCallee[n] ELSE << >>,
             "cmpFuncId")

RECURSIVE EnqueueWithoutInQueueCheck(_, _)
\* A variant that appends every dependent, queued or not.
EnqueueWithoutInQueueCheck(r, deps) ==
  IF deps = << >> THEN r
  ELSE IF Head(deps) \notin SeqToSet(r.graph.nodes) THEN Threw(r, "DependentNotInGraph")
  ELSE EnqueueWithoutInQueueCheck(
         [r EXCEPT !.inQueue = @ \cup {Head(deps)}, !.queue = Append(@, Head(deps))],
         Tail(deps))

RECURSIVE Enqueue(_, _)
\* Appends each dependent that is not already queued.
Enqueue(r, deps) ==
  IF deps = << >> THEN r
  ELSE IF Head(deps) \notin SeqToSet(r.graph.nodes) THEN Threw(r, "DependentNotInGraph")
  ELSE IF Head(deps) \in r.inQueue THEN Enqueue([r EXCEPT !.skips = @ + 1], Tail(deps))
  ELSE Enqueue([r EXCEPT !.inQueue = @ \cup {Head(deps)}, !.queue = Append(@, Head(deps))],
               Tail(deps))

\* The step closure of runInterprocPropagationV2: the state it computes for
\* funcId from the current states.
NextFuncState(r, funcId, irs, sums) ==
  computeFuncStateV2(FuncInputV2(funcId, irs[funcId], sums[funcId]),
                     CalleesByCallsite(r.graph, funcId), r.stateByFuncId)

\* A variant that reports every step as a change.
StepAlwaysChanged(prev, next) == TRUE

\* arraysEqual(prev.factKeys, next.factKeys) on an existing prev.
StepChanged(prev, next) == ~(prev.present /\ prev.facts = next.facts)

\* A variant that fails as soon as the step count reaches the limit.
IterateRunFailingAtLimit(r, o, irs, sums) ==
  LET n == r.queue[r.head + 1]
      popped == [r EXCEPT !.head = @ + 1, !.inQueue = @ \ {n}, !.steps = @ + 1]
      next == NextFuncState(r, n, irs, sums)
      changed == StepChanged(r.stateByFuncId[n], next)
      visited == [popped EXCEPT !.trace = Append(@, n)]
  IN IF o.maxStepsDefined /\ popped.steps >= o.maxSteps THEN Threw(popped, "FixpointOverflow")
     ELSE IF ~changed THEN visited
     ELSE Enqueue([visited EXCEPT !.changedSteps = @ + 1, !.stateByFuncId[n] = next],
                  Dependents(r.graph, n))

\* One iteration of the while loop.
IterateRun(r, o, irs, sums) ==
  LET n == r.queue[r.head + 1]
      popped == [r EXCEPT !.head = @ + 1, !.inQueue = @ \ {n}, !.steps = @ + 1]
      next == NextFuncState(r, n, irs, sums)
      changed == StepChanged(r.stateByFuncId[n], next)
      visited == [popped EXCEPT !.trace = Append(@, n)]
  IN IF o.maxStepsDefined /\ popped.steps > o.maxSteps THEN Threw(popped, "FixpointOverflow")
     ELSE IF ~changed THEN visited
     ELSE Enqueue([visited EXCEPT !.changedSteps = @ + 1, !.stateByFuncId[n] = next],
                  Dependents(r.graph, n))

\* The loop has ended: runDeterministicFixpoint returns.
ReturnRun(r) == [r EXCEPT !.pc = "returned"]

\* What runInterprocPropagationV2 returns once the driver has returned.
PropagationResult(r) ==
  [fixpoint |-> [steps |-> r.steps, changedSteps |-> r.changedSteps],
   facts |-> UNION { r.stateByFuncId[f].facts : f \in SeqToSet(r.graph.nodes) },
   factsByFuncId |-> [f \in SeqToSet(r.graph.nodes) |-> r.stateByFuncId[f].facts]]

\* ------------------------------------------------------------------------
\* Actions of the propagation run
\* ------------------------------------------------------------------------

Start ==
  /\ run.pc = "start"
  /\ run' = StartRun(run, input, opts, irByFuncId, summaryByFuncId)
  /\ ticks' = ticks + 1
  /\ UNCHANGED << input, opts, irByFuncId, summaryByFuncId, input2, opts2, run2, cacheVars, cli, libVars >>

Iterate ==
  /\ run.pc = "loop"
  /\ run.head < Len(run.queue)
  /\ run.steps < StepCap
  /\ run' = IterateRun(run, opts, irByFuncId, summaryByFuncId)
  /\ ticks' = ticks + 1
  /\ UNCHANGED << input, opts, irByFuncId, summaryByFuncId, input2, opts2, run2, cacheVars, cli, libVars >>

Return ==
  /\ run.pc = "loop"
  /\ run.head >= Len(run.queue)
  /\ run' = ReturnRun(run)
  /\ ticks' = ticks + 1
  /\ UNCHANGED << input, opts, irByFuncId, summaryByFuncId, input2, opts2, run2, cacheVars, cli, libVars >>

\* ------------------------------------------------------------------------
\* Specification of one propagation run without a maxSteps limit
\* ------------------------------------------------------------------------

Funcs(n) == { FuncUniverse[i] : i \in 1..n }

\* The programs over the first n functions: a body for each, and callees for
\* each callsite.
ProgramChoicesOver(n, templates) ==
  { c \in [template : [Funcs(n) -> templates], callees : [Funcs(n) -> SUBSET Funcs(n)]] :
      \A f \in Funcs(n) : c.template[f] \in LeafTemplates => c.callees[f] = {} }

ProgramChoices(n) == ProgramChoicesOver(n, Templates)

\* The bodies of the programs of more than two functions in the specifications
\* that explore options or presentations besides programs.
CoreTemplates == {"id", "call1"}
TemplatesFor(n) == IF n <= 2 THEN Templates ELSE CoreTemplates

ProgramIrs(n, c) == [f \in Funcs(n) |-> TemplateIr(c.template[f], f)]

ProgramSummaries(n, c) == [f \in Funcs(n) |-> BaselineSummary(TemplateIr(c.template[f], f))]

ProgramInput(n, c) ==
  [nodes |-> SubSeq(FuncUniverse, 1, n),
   edges |-> SetToSeq(ProgramEdges(Funcs(n), c.template, c.callees))]

\* No cache operation has happened.
NoIr == FuncIR(NoFunc, << >>, << >>, << >>)
CacheOp(op, key, ir, text, result, pre) ==
  [op |-> op, key |-> key, ir |-> ir, text |-> text, result |-> result, pre |-> pre]
NoCacheOp == CacheOp("none", "", NoIr, NoText, OpResult("ok", "", JsonNull, FALSE), EmptyFs)

\* The output files of the analyze command: the lines of the flow fact file
\* and of the witness file, and the explain bundles.
OutputFiles(facts, witness, explain) ==
  [facts |-> facts, witness |-> witness, explain |-> explain]

\* No analyze command has run and no output file exists.
NoOutput == [facts |-> << "absent" >>, witness |-> << "absent" >>, explain |-> << "absent" >>]
NoCli == [runs |-> << >>, files |-> NoOutput]

\* No cache operation and no analyze command takes place.
IdleStore ==
  /\ fs = EmptyFs
  /\ fs0 = EmptyFs
  /\ irHash = [ir \in CacheIrs |-> "k1"]
  /\ firstWrite = [k \in CacheKeys |-> NoText]
  /\ last = NoCacheOp
  /\ cli = NoCli

\* The cache is not part of a propagation run.
IdleCache ==
  /\ IdleStore
  /\ call = NoCall
  /\ procs = NoProcs

\* No propagation run takes place.
IdleRun ==
  /\ input = [nodes |-> << >>, edges |-> << >>]
  /\ opts = NoOptions
  /\ irByFuncId = << >>
  /\ summaryByFuncId = << >>
  /\ run = NewRun
  /\ input2 = input
  /\ opts2 = opts
  /\ run2 = NewRun
  /\ ticks = 0

InitProgram(n, c) ==
  /\ input = ProgramInput(n, c)
  /\ irByFuncId = ProgramIrs(n, c)
  /\ summaryByFuncId = ProgramSummaries(n, c)
  /\ run = NewRun
  /\ run2 = NewRun
  /\ ticks = 0
  /\ IdleCache

Init ==
  \E n \in 1..MaxFuncs :
    \E c \in ProgramChoices(n) :
      /\ InitProgram(n, c)
      /\ opts = NoOptions
      /\ input2 = input
      /\ opts2 = opts

Next == Start \/ Iterate \/ Return

Spec == Init /\ [][Next]_vars

\* TRUE iff some action of the run can be taken: the run has neither returned
\* nor thrown (and is below the cap the model puts on the step counter).
NextEnabled ==
  \/ run.pc = "start"
  \/ run.pc = "loop" /\ run.head < Len(run.queue) /\ run.steps < StepCap
  \/ run.pc = "loop" /\ run.head >= Len(run.queue)

\* One transition of the run, seen through the transition counter alone.
Tick == NextEnabled /\ ticks' = ticks + 1

\* The run under the scheduling of a single-threaded synchronous program: while
\* a transition can be taken, one is taken.  Every action of Next advances
\* ticks and nothing else does, so this is weak fairness of Next.
LiveSpec == Spec /\ WF_ticks(Tick)

\* ------------------------------------------------------------------------
\* Properties of the propagation run
\* ------------------------------------------------------------------------

Nodes == SeqToSet(run.graph.nodes)

\* The pending worklist entries: queued and not yet popped.
Pending == SubSeq(run.queue, run.head + 1, Len(run.queue))

\* TRUE iff the call graph has a cycle through f (f calls itself, directly or
\* through other functions).
OnCycle(f) ==
  LET adj == { << run.graph.edges[i].callerFuncId, run.graph.edges[i].calleeFuncId >> :
                 i \in 1..Len(run.graph.edges) }
  IN f \in Visited({ e[2] : e \in { x \in adj : x[1] = f } }, adj)

\* C1: run without a maxSteps limit, propagation terminates: the worklist
\* becomes empty and the driver returns.
C1_Terminates == <>(run.pc = "returned")

\* A run over a cyclic call graph returned after re-visiting functions.
C1_Witness ==
  /\ run.pc = "returned"
  /\ \E f \in Nodes : OnCycle(f)
  /\ run.steps > Cardinality(Nodes)

\* C2: whenever the run replaces a function's state, the new fact set contains
\* the old one; no fact ever leaves a function's state.
C2_FactsOnlyGrow ==
  [][run.pc = "loop" =>
       \A f \in DOMAIN run.stateByFuncId :
         run.stateByFuncId[f].facts \subseteq run'.stateByFuncId[f].facts]_vars

\* Some function's state was replaced after its first computation: there were
\* more changed steps than functions, and that function holds facts.
C2_Witness ==
  /\ run.pc = "loop"
  /\ run.changedSteps > Cardinality(Nodes)
  /\ \E f \in Nodes : run.stateByFuncId[f].facts # {}

\* C3: when the driver has returned, recomputing any function from the final
\* states yields the facts it already holds.
C3_FixedPoint ==
  run.pc = "returned" =>
    \A f \in Nodes :
      /\ run.stateByFuncId[f].present
      /\ NextFuncState(run, f, irByFuncId, summaryByFuncId).facts = run.stateByFuncId[f].facts

\* The run returned after a caller was recomputed because a callee changed.
C3_Witness ==
  /\ run.pc = "returned"
  /\ run.changedSteps > Cardinality(Nodes)

\* C4: no function occurs twice among the pending worklist entries.
C4_NoDuplicatePending ==
  \A i, j \in 1..Len(Pending) : i # j => Pending[i] # Pending[j]

\* A dependent of a changed function was already pending and was not enqueued
\* again.
C4_Witness ==
  /\ run.skips > 0
  /\ Len(Pending) > 0

\* The number of functions of the graph.
FunctionCount == Cardinality(Nodes)

\* The number of distinct (caller, callee) pairs of the graph.
CallPairCount ==
  Cardinality({ << run.graph.edges[i].callerFuncId, run.graph.edges[i].calleeFuncId >> :
                  i \in 1..Len(run.graph.edges) })

\* The largest number of facts any one function holds.  Fact sets only grow,
\* so at return this is the most any function held during the run.
FactCeiling ==
  LET counts == { Cardinality(run.stateByFuncId[f].facts) : f \in DOMAIN run.stateByFuncId }
  IN IF counts = {} THEN 0 ELSE CHOOSE c \in counts : \A d \in counts : d <= c

\* C7 as stated: the driver has executed at most (number of functions) times
\* (largest number of facts of a function) steps when it returns.
C7_StepsWithinProduct ==
  run.pc = "returned" => run.steps <= FunctionCount * FactCeiling

\* C7: the driver executes at most (number of functions) plus (number of
\* caller-callee pairs) times (one more than the largest number of facts of a
\* function) steps: every function is visited once from the seed, and each of
\* the at most ceiling + 1 changes of a function enqueues each of its callers
\* at most once.
C7_StepsWithinBound ==
  run.pc \in {"loop", "returned"} =>
    run.steps <= FunctionCount + CallPairCount * (FactCeiling + 1)

\* The run returned after more steps than functions times facts per function,
\* in a program whose functions hold facts.
C7_Witness ==
  /\ run.pc = "returned"
  /\ FactCeiling > 0
  /\ run.steps > FunctionCount * FactCeiling

\* ------------------------------------------------------------------------
\* Specification of a run with a maxSteps limit
\* ------------------------------------------------------------------------

InitMax ==
  \E n \in 1..MaxFuncs :
    \E c \in ProgramChoicesOver(n, TemplatesFor(n)) :
      \E m \in 0..MaxStepsOpt :
        /\ InitProgram(n, c)
        /\ opts = FixpointOptions(TRUE, m, FALSE, << >>)
        /\ input2 = input
        /\ opts2 = opts

SpecMax == InitMax /\ [][Next]_vars

RECURSIVE RunLoop(_, _, _, _)
\* The while loop of runDeterministicFixpoint run to its end.
RunLoop(r, o, irs, sums) ==
  IF r.pc # "loop" THEN r
  ELSE IF r.head >= Len(r.queue) THEN ReturnRun(r)
  ELSE RunLoop(IterateRun(r, o, irs, sums), o, irs, sums)

\* The number of steps the run of the same input takes without a limit.
StepsNeeded ==
  RunLoop(StartRun(NewRun, input, NoOptions, irByFuncId, summaryByFuncId),
          NoOptions, irByFuncId, summaryByFuncId).steps

\* C6: with maxSteps = N the step function is called at most N times; the run
\* fails with the overflow error exactly when the run without a limit needs
\* more than N steps (the worklist is not empty after N steps), and returns,
\* after the steps it needs, when it needs at most N.
C6_MaxStepsHonored ==
  opts.maxStepsDefined /\ opts.maxSteps > 0 =>
    /\ Len(run.trace) <= opts.maxSteps
    /\ run.pc = "threw" =>
         /\ run.error = "FixpointOverflow"
         /\ Len(run.trace) = opts.maxSteps
         /\ StepsNeeded > opts.maxSteps
    /\ run.pc = "returned" =>
         /\ StepsNeeded <= opts.maxSteps
         /\ run.steps = StepsNeeded
         /\ Len(run.trace) = StepsNeeded

\* A run with a limit of at least two failed with the overflow error after
\* calling the step function as often as the limit allows.
C6_Witness ==
  /\ opts.maxStepsDefined
  /\ opts.maxSteps >= 2
  /\ run.pc = "threw"
  /\ run.error = "FixpointOverflow"
  /\ Len(run.trace) = opts.maxSteps

\* ------------------------------------------------------------------------
\* Specification of two runs over two presentations of one graph
\* ------------------------------------------------------------------------

Reverse(seq) == [i \in 1..Len(seq) |-> seq[Len(seq) + 1 - i]]

RotateLeft(seq) == IF seq = << >> THEN seq ELSE Tail(seq) \o << Head(seq) >>

\* Other orders of a list, and the list with its first element repeated.
Reorderings(seq) ==
  { seq, Reverse(seq), RotateLeft(seq) } \cup
  (IF seq = << >> THEN {} ELSE { seq \o << Head(seq) >> })

\* The orders in which the second run is given the functions of a set: every
\* order of up to two functions, two other orders of more.
OrdersOf(set) ==
  IF Cardinality(set) <= 2 THEN Orderings(set)
  ELSE { Reverse(SetToSeq(set)), RotateLeft(SetToSeq(set)) }

\* The other orders in which the second run is given the edges.
EdgeOrdersOf(n, edges) ==
  IF n <= 2 THEN Reorderings(edges) ELSE { Reverse(edges), RotateLeft(edges) }

\* The sets of initial functions: any of up to two functions, all or none of more.
InitialSetsOf(n) == IF n <= 2 THEN SUBSET Funcs(n) ELSE { Funcs(n) }

InitDet ==
  \E n \in 1..MaxFuncs :
    \E c \in ProgramChoicesOver(n, TemplatesFor(n)) :
      /\ InitProgram(n, c)
      /\ \E ns \in OrdersOf(Funcs(n)) :
           \E es \in EdgeOrdersOf(n, input.edges) :
             input2 = [nodes |-> ns, edges |-> es]
      /\ \/ opts = NoOptions /\ opts2 = NoOptions
         \/ \E sub \in InitialSetsOf(n) :
              /\ opts = FixpointOptions(FALSE, 0, TRUE, SetToSeq(sub))
              /\ \E q \in OrdersOf(sub) : opts2 = FixpointOptions(FALSE, 0, TRUE, q)

\* The next transition of a run in the loop.
AdvanceRun(r, o, irs, sums) ==
  IF r.head < Len(r.queue) THEN IterateRun(r, o, irs, sums) ELSE ReturnRun(r)

StartBoth ==
  /\ run.pc = "start"
  /\ run2.pc = "start"
  /\ run' = StartRun(run, input, opts, irByFuncId, summaryByFuncId)
  /\ run2' = StartRun(run2, input2, opts2, irByFuncId, summaryByFuncId)
  /\ ticks' = ticks + 1
  /\ UNCHANGED << input, opts, irByFuncId, summaryByFuncId, input2, opts2, cacheVars, cli, libVars >>

IterateBoth ==
  /\ run.pc = "loop"
  /\ run2.pc = "loop"
  /\ run.head < Len(run.queue) \/ run2.head < Len(run2.queue)
  /\ run.steps < StepCap
  /\ run2.steps < StepCap
  /\ run' = AdvanceRun(run, opts, irByFuncId, summaryByFuncId)
  /\ run2' = AdvanceRun(run2, opts2, irByFuncId, summaryByFuncId)
  /\ ticks' = ticks + 1
  /\ UNCHANGED << input, opts, irByFuncId, summaryByFuncId, input2, opts2, cacheVars, cli, libVars >>

ReturnBoth ==
  /\ run.pc = "loop"
  /\ run2.pc = "loop"
  /\ run.head >= Len(run.queue)
  /\ run2.head >= Len(run2.queue)
  /\ run' = ReturnRun(run)
  /\ run2' = ReturnRun(run2)
  /\ ticks' = ticks + 1
  /\ UNCHANGED << input, opts, irByFuncId, summaryByFuncId, input2, opts2, cacheVars, cli, libVars >>

NextDet == StartBoth \/ IterateBoth \/ ReturnBoth

SpecDet == InitDet /\ [][NextDet]_vars

\* C5: two runs over the same sets of nodes, edges and initial functions, each
\* supplied in its own order, visit the same functions in the same sequence,
\* count the same steps and changed steps, and hold the same states.
C5_OrderIndependent ==
  /\ run.pc = run2.pc
  /\ run.error = run2.error
  /\ run.trace = run2.trace
  /\ run.steps = run2.steps
  /\ run.changedSteps = run2.changedSteps
  /\ run.stateByFuncId = run2.stateByFuncId

\* Both runs returned after re-visiting a function, with nodes, edges and the
\* initial worklist each supplied in a different order.
C5_Witness ==
  /\ run.pc = "returned"
  /\ run2.pc = "returned"
  /\ input2.nodes # input.nodes
  /\ input2.edges # input.edges
  /\ opts.initialDefined
  /\ opts2.initial # opts.initial
  /\ Len(run.trace) > Len(opts.initial)

\* ------------------------------------------------------------------------
\* Specification of the summary cache
\* ------------------------------------------------------------------------

\* What an entry path may hold before the first operation: nothing, a
\* directory, a summary written earlier, a file that cannot be read, text that
\* is not JSON, the JSON text null, a summary object that is not normalized, or
\* a summary object that lacks a baseline edge.
InitialNodes ==
  { AbsentNode, DirNode, FileNode(GarbageText, TRUE), FileNode(JsonText(JsonNull, TRUE), TRUE) }
  \cup { FileNode(CacheFileText(s), TRUE) : s \in CacheSummaries }
  \cup { FileNode(CacheFileText(BaselineSummary(CacheIrA)), FALSE) }
  \cup { FileNode(JsonText(JsonOfSummary(UnnormalizedSummary(CacheIrB)), TRUE), TRUE),
         FileNode(JsonText(JsonOfSummary(PartialSummary(CacheIrB)), TRUE), TRUE) }

InitCache ==
  /\ input = [nodes |-> << >>, edges |-> << >>]
  /\ opts = NoOptions
  /\ irByFuncId = << >>
  /\ summaryByFuncId = << >>
  /\ run = NewRun
  /\ input2 = input
  /\ opts2 = opts
  /\ run2 = NewRun
  /\ ticks = 0
  /\ \E d \in {"missing", "dir", "file"} :
       \E e \in [CacheKeys -> InitialNodes] :
         /\ d # "dir" => \A k \in CacheKeys : e[k] = AbsentNode
         /\ fs = [dir |-> d, entries |-> e, tmp |-> [k \in CacheKeys |-> AbsentNode]]
  /\ fs0 = fs
  \* The keys are interchangeable: the first function's key is fixed, the
  \* second function's key is the same or another.
  /\ irHash \in { h \in [CacheIrs -> CacheKeys] : h[CacheIrA] = "k1" }
  /\ firstWrite = [k \in CacheKeys |-> NoText]
  /\ last = NoCacheOp
  /\ cli = NoCli
  /\ call = NoCall
  /\ procs = NoProcs

\* firstWrite after a write call for key with the given text.
NoteWrite(key, text) ==
  IF text # NoText /\ firstWrite[key] = NoText
    THEN [firstWrite EXCEPT ![key] = text] ELSE firstWrite

CacheRead ==
  /\ ticks < MaxCacheOps
  /\ \E key \in CacheKeys :
       last' = CacheOp("read", key, NoIr, NoText, readFuncSummaryFromCache(fs, key), fs)
  /\ ticks' = ticks + 1
  /\ UNCHANGED << fixVars, fs, fs0, irHash, firstWrite, cli, libVars >>

\* The state after a write call that returned out.
WriteDone(key, summary, out) ==
  /\ fs' = out.fs
  /\ firstWrite' = NoteWrite(key, CacheFileText(summary))
  /\ last' = CacheOp("write", key, NoIr, CacheFileText(summary), out.result, fs)

CacheWrite ==
  /\ ticks < MaxCacheOps
  /\ \E key \in CacheKeys :
       \E summary \in CacheSummaries :
         WriteDone(key, summary, writeFuncSummaryToCache(fs, key, summary))
  /\ ticks' = ticks + 1
  /\ UNCHANGED << fixVars, fs0, irHash, cli, libVars >>

\* The state after a pipeline call that returned out.
PipelineDone(key, ir, out) ==
  /\ fs' = out.fs
  /\ firstWrite' = NoteWrite(key, out.written)
  /\ last' = CacheOp("pipeline", key, ir, out.written, out.result, fs)

CachePipeline ==
  /\ ticks < MaxCacheOps
  /\ \E ir \in CacheIrs :
       PipelineDone(irHash[ir], ir,
                    getOrComputeFuncSummaryCheapPassOnly(fs, ir, irHash[ir]))
  /\ ticks' = ticks + 1
  /\ UNCHANGED << fixVars, fs0, irHash, cli, libVars >>

NextCache == CacheRead \/ CacheWrite \/ CachePipeline

SpecCache == InitCache /\ [][NextCache]_vars

\* TRUE iff the entry of key was a file before the first operation.
EntryExistedBefore(key) == fs0.dir = "dir" /\ fs0.entries[key].kind = "file"

\* C8: once a write has been made to a key, the file at the key's path holds
\* what the first write put there (or the entry that existed before it), and a
\* write to an existing entry leaves the file system as it was.
C8_FirstWriteKept ==
  /\ \A key \in CacheKeys :
       firstWrite[key] # NoText =>
         /\ EntryExistedBefore(key) => fs.entries[key] = fs0.entries[key]
         /\ fs0.dir # "file" /\ fs0.entries[key].kind = "absent" =>
              fs.entries[key] = FileNode(firstWrite[key], TRUE)
  /\ last.op = "write" /\ last.pre.dir = "dir" /\ last.pre.entries[last.key].kind = "file" =>
       fs = last.pre /\ last.result.status = "ok"

\* A write with another text than the first write's was made to an entry that
\* the first write had created.
C8_Witness ==
  /\ last.op = "write"
  /\ last.result.status = "ok"
  /\ fs0.entries[last.key].kind = "absent"
  /\ firstWrite[last.key] # NoText
  /\ last.text # firstWrite[last.key]
  /\ last.pre.entries[last.key].kind = "file"

\* TRUE iff no node exists at the entry path of key in f.
EntryMissing(f, key) ==
  f.dir = "missing" \/ (f.dir = "dir" /\ f.entries[key].kind = "absent")

\* C9: a read of a key without entry, the cache directories missing or not,
\* reports absent; a read that reports absent found no entry; a read that fails
\* for another reason (a file in place of a directory, a directory in place of
\* the entry, an unreadable file) reports that error.
C9_ReadAbsentOrError ==
  last.op = "read" =>
    /\ EntryMissing(last.pre, last.key) => last.result.status = "absent"
    /\ last.result.status = "absent" => EntryMissing(last.pre, last.key)
    /\ last.pre.dir = "file" =>
         last.result.status = "error" /\ last.result.error = "ENOTDIR"
    /\ last.pre.dir = "dir" /\ last.pre.entries[last.key].kind = "dir" =>
         last.result.status = "error" /\ last.result.error = "EISDIR"
    /\ /\ last.pre.dir = "dir"
       /\ last.pre.entries[last.key].kind = "file"
       /\ ~last.pre.entries[last.key].readable
       => last.result.status = "error" /\ last.result.error = "EACCES"

\* A read found the cache directories missing and reported the entry absent.
C9_Witness ==
  /\ last.op = "read"
  /\ last.pre.dir = "missing"
  /\ last.result.status = "absent"

\* TRUE iff, before the last operation, the entry of its key held the text of
\* a normalized summary of its function.
CachedSummaryOfIr ==
  /\ last.pre.dir = "dir"
  /\ last.pre.entries[last.key].kind = "file"
  /\ last.pre.entries[last.key].readable
  /\ last.pre.entries[last.key].content.text = "json"
  /\ last.pre.entries[last.key].content.json \in
       { JsonOfSummary(BaselineSummary(last.ir)), JsonOfSummary(ExtraSummary(last.ir)) }

\* C10: a pipeline call for a function whose summary is in the cache returns
\* that summary with cacheHit = TRUE, calls no write and leaves the file
\* system, the entry's bytes included, as it was.
C10_CacheHitNoWrite ==
  last.op = "pipeline" /\ CachedSummaryOfIr =>
    /\ last.result.status = "ok"
    /\ last.result.cacheHit
    /\ last.result.value = last.pre.entries[last.key].content.json
    /\ last.text = NoText
    /\ fs = last.pre

\* A pipeline call returned, as a hit, a cached summary that differs from the
\* one it would have computed.
C10_Witness ==
  /\ last.op = "pipeline"
  /\ CachedSummaryOfIr
  /\ last.result.cacheHit
  /\ last.result.value = JsonOfSummary(ExtraSummary(last.ir))
  /\ ExtraSummary(last.ir) # BaselineSummary(last.ir)

\* TRUE iff the JSON value is the object of a normalized summary of ir: the
\* normalizer accepts it and returns it unchanged.
IsNormalizedSummaryOf(json, ir) ==
  /\ json.t = "object"
  /\ normalizeFuncSummary(SummaryOfJson(json), ir, BaselineSummary(ir).edges,
                          DEFAULT_FUNC_SUMMARY_BOUNDS).ok
  /\ JsonOfSummary(normalizeFuncSummary(SummaryOfJson(json), ir, BaselineSummary(ir).edges,
                                        DEFAULT_FUNC_SUMMARY_BOUNDS).summary) = json

\* TRUE iff, before the last operation, the entry of its key was a readable
\* file holding a JSON object.
CachedObject ==
  /\ last.pre.dir = "dir"
  /\ last.pre.entries[last.key].kind = "file"
  /\ last.pre.entries[last.key].readable
  /\ last.pre.entries[last.key].content.text = "json"
  /\ last.pre.entries[last.key].content.json.t = "object"

\* C13 as stated: whatever a successful read returns is a normalized summary
\* of one of the functions.
C13_ReadReturnsNormalized ==
  last.op = "read" /\ last.result.status = "ok" =>
    \E ir \in CacheIrs : IsNormalizedSummaryOf(last.result.value, ir)

\* C13: a successful read returns the JSON value of the stored text as it is;
\* the pipeline passes every cached object through the normalizer, so the
\* summary it returns is a normalized summary of its function, and a cached
\* object that the normalizer rejects makes the pipeline fail, without a
\* write, rather than return it.
C13_PipelineNormalizesCached ==
  /\ last.op = "read" /\ last.result.status = "ok" =>
       last.result.value = last.pre.entries[last.key].content.json
  /\ last.op = "pipeline" /\ last.result.status = "ok" =>
       IsNormalizedSummaryOf(last.result.value, last.ir)
  /\ /\ last.op = "pipeline"
     /\ CachedObject
     /\ ~normalizeFuncSummary(SummaryOfJson(last.pre.entries[last.key].content.json),
                              last.ir, BaselineSummary(last.ir).edges,
                              DEFAULT_FUNC_SUMMARY_BOUNDS).ok
     => /\ last.result.status = "error"
        /\ last.text = NoText
        /\ fs = last.pre

\* A pipeline call found a cached object that is not normalized and returned,
\* as a hit, the normalized summary instead of the stored value.
C13_Witness ==
  /\ last.op = "pipeline"
  /\ CachedObject
  /\ ~IsNormalizedSummaryOf(last.pre.entries[last.key].content.json, last.ir)
  /\ last.result.status = "ok"
  /\ last.result.cacheHit
  /\ last.result.value # last.pre.entries[last.key].content.json

\* The baseline edges of a function: its cheap-pass edges as summary edges.

\* TRUE iff the summary object has every baseline edge of ir.
CoversBaseline(json, ir) ==
  \A i \in 1..Len(BaselineEdges(ir)) :
    BaselineEdges(ir)[i] \in SeqToSet(SummaryOfJson(json).edges)

\* C14: every summary the pipeline returns, computed or taken from the cache
\* through the normalizer, has every baseline cheap-pass edge of its function;
\* a cached candidate that lacks a baseline edge is rejected with an error
\* and nothing is written.
C14_BaselineCovered ==
  /\ last.op = "pipeline" /\ last.result.status = "ok" =>
       CoversBaseline(last.result.value, last.ir)
  /\ /\ last.op = "pipeline"
     /\ CachedObject
     /\ ~CoversBaseline(last.pre.entries[last.key].content.json, last.ir)
     => /\ last.result.status = "error"
        /\ last.text = NoText
        /\ fs = last.pre

\* The pipeline rejected a cached summary of its function whose only flaw is a
\* missing baseline edge.
C14_Witness ==
  /\ last.op = "pipeline"
  /\ CachedObject
  /\ last.pre.entries[last.key].content.json.funcId = last.ir.funcId
  /\ ~CoversBaseline(last.pre.entries[last.key].content.json, last.ir)
  /\ last.result.status = "error"
  /\ last.result.error = "BaselineCoverageMissing"

\* ------------------------------------------------------------------------
\* cli.ts: cmdAnalyze and the writers of its output files
\* ------------------------------------------------------------------------

\* canonicalJsonStringify of a FlowNode: the keys of its kind.
JsonOfFlowNode(n) ==
  CASE n.kind = "var" -> [kind |-> "var", funcId |-> n.funcId, id |-> n.id]
    [] n.kind = "call_arg" ->
         [kind |-> "call_arg", callsiteId |-> n.callsiteId, index |-> n.index]
    [] n.kind \in {"heap_read", "heap_write"} -> [kind |-> n.kind, id |-> n.heapId]
    [] OTHER -> [kind |-> n.kind, funcId |-> n.funcId]

\* The lines of the flow fact file: the facts in cmpFlowFact order.
serializeFlowFactsJsonl(facts) ==
  LET sorted == stableSort(SetToSeq(facts), "cmpFlowFact")
  IN [i \in 1..Len(sorted) |->
        [schemaVersion |-> sorted[i].schemaVersion,
         from |-> JsonOfFlowNode(sorted[i].from), to |-> JsonOfFlowNode(sorted[i].to)]]

CALL_CHAIN_WITNESS_SCHEMA_VERSION == 1

\* The lines of the witness file: one single-step witness per edge.
serializeCallChainWitnessesJsonlFromEdges(edges) ==
  LET witnesses == [i \in 1..Len(edges) |->
                      [schemaVersion |-> CALL_CHAIN_WITNESS_SCHEMA_VERSION,
                       kind |-> "call_chain",
                       steps |-> << [callerFuncId |-> edges[i].callerFuncId,
                                     callsiteId |-> edges[i].callsiteId,
                                     calleeFuncId |-> edges[i].calleeFuncId] >>]]
  IN stableSort(DedupeSeq(witnesses), "cmpCallChainWitness")

\* The bundle files and the manifest that writeExplainBundlesDir writes.
writeExplainBundlesDir(funcs) ==
  LET sorted == stableSort(funcs, "cmpExplainInput")
  IN [bundles |-> [i \in 1..Len(sorted) |->
                     [funcId |-> sorted[i].funcId,
                      normalizedIrHash |-> sorted[i].normalizedIrHash,
                      ir |-> sorted[i].ir,
                      summary |-> JsonOfSummary(sorted[i].summary)]],
      manifest |-> [i \in 1..Len(sorted) |->
                      [funcId |-> sorted[i].funcId,
                       normalizedIrHash |-> sorted[i].normalizedIrHash]]]

RECURSIVE SummarizeNodes(_, _, _, _)

\* One turn of the loop of cmdAnalyze, once the pipeline has returned out for
\* the function funcId.
SummarizedNode(acc, nodes, irs, hash, funcId, ir, out) ==
  IF out.result.status = "error"
    THEN [acc EXCEPT !.fs = out.fs, !.error = out.result.error]
  ELSE SummarizeNodes(
         [fs |-> out.fs, error |-> "",
          summaryByFuncId |-> acc.summaryByFuncId @@ (funcId :> out.summary),
          explainInputs |->
            Append(acc.explainInputs,
                   [funcId |-> funcId, normalizedIrHash |-> hash[ir], ir |-> ir,
                    summary |-> out.summary]),
          hits |-> acc.hits \cup (IF out.result.cacheHit THEN {funcId} ELSE {})],
         Tail(nodes), irs, hash)

\* The loop of cmdAnalyze over graph.nodes: each function's summary is taken
\* from the pipeline; the first error ends the loop.
SummarizeNodes(acc, nodes, irs, hash) ==
  IF nodes = << >> \/ acc.error # "" THEN acc
  ELSE SummarizedNode(acc, nodes, irs, hash, Head(nodes), irs[Head(nodes)],
                      getOrComputeFuncSummaryCheapPassOnly(acc.fs, irs[Head(nodes)],
                                                           hash[irs[Head(nodes)]]))

\* An analyze command that failed returns 1 and leaves the output files as
\* they were.
AnalyzeFailed(fsAfter, files, error) ==
  [fs |-> fsAfter, files |-> files,
   run |-> [exit |-> 1, error |-> error, hits |-> {}, files |-> files]]

\* An analyze command that wrote the output files out returns 0.
AnalyzeSucceeded(sums, out) ==
  [fs |-> sums.fs, files |-> out,
   run |-> [exit |-> 0, error |-> "", hits |-> sums.hits, files |-> out]]

\* cmdAnalyze once propagation has ended in prop.
AnalyzePropagated(files, graph, sums, prop) ==
  IF prop.pc = "threw" THEN AnalyzeFailed(sums.fs, files, prop.error)
  ELSE AnalyzeSucceeded(
         sums,
         OutputFiles(serializeFlowFactsJsonl(PropagationResult(prop).facts),
                     serializeCallChainWitnessesJsonlFromEdges(graph.edges),
                     writeExplainBundlesDir(sums.explainInputs)))

\* cmdAnalyze once the loop over graph.nodes has ended in sums.
AnalyzeSummarized(files, graph, irs, sums) ==
  IF sums.error # "" THEN AnalyzeFailed(sums.fs, files, sums.error)
  ELSE AnalyzePropagated(
         files, graph, sums,
         RunLoop(StartRun(NewRun, [nodes |-> graph.nodes, edges |-> graph.edges],
                          NoOptions, irs, sums.summaryByFuncId),
                 NoOptions, irs, sums.summaryByFuncId))

\* cmdAnalyze once the call graph has been normalized.
AnalyzeGraph(f, files, graph, irs, hash) ==
  IF ~graph.ok THEN AnalyzeFailed(f, files, "CallsiteNotInCaller")
  ELSE AnalyzeSummarized(
         files, graph, irs,
         SummarizeNodes([fs |-> f, error |-> "", summaryByFuncId |-> << >>,
                         explainInputs |-> << >>, hits |-> {}],
                        graph.nodes, irs, hash))

\* One analyze command: [fs, files, run].
cmdAnalyze(f, files, in, irs, hash) ==
  AnalyzeGraph(f, files, normalizeMappedCallGraph(in), irs, hash)

\* ------------------------------------------------------------------------
\* Specification of successive analyze commands over one cache
\* ------------------------------------------------------------------------

KeyUniverse == << "k1", "k2", "k3", "k4" >>

KeysFor(n) == { KeyUniverse[i] : i \in 1..n }

\* hashNormalizedFuncIr on the IRs of a program: the first function's key is
\* fixed; programs of up to two functions may have one key for both.
ProgramHashes(n, irs) ==
  IF n <= 2
    THEN { h \in [{ irs[f] : f \in Funcs(n) } -> KeysFor(n)] : h[irs[FuncUniverse[1]]] = "k1" }
    ELSE { [ir \in { irs[f] : f \in Funcs(n) } |->
              KeyUniverse[CHOOSE i \in 1..n : irs[FuncUniverse[i]] = ir]] }

\* What a cache entry may hold before the first command: nothing, the JSON
\* text null, text that is not JSON, or a summary of the first function with
\* one more edge than its baseline.
RerunNodes(irs) ==
  { AbsentNode, FileNode(JsonText(JsonNull, TRUE), TRUE), FileNode(GarbageText, TRUE),
    FileNode(CacheFileText(ExtraSummary(irs[FuncUniverse[1]])), TRUE) }

\* The cache before the first command: no cache directory, or (for programs
\* of up to two functions) a directory with any of the entries above at the
\* first function's key.
RerunFileSystems(n, irs) ==
  { [dir |-> "missing", entries |-> [k \in KeysFor(n) |-> AbsentNode],
     tmp |-> [k \in KeysFor(n) |-> AbsentNode]] }
  \cup
  (IF n <= 2
     THEN { [dir |-> "dir",
             entries |-> [k \in KeysFor(n) |-> IF k = "k1" THEN node ELSE AbsentNode],
             tmp |-> [k \in KeysFor(n) |-> AbsentNode]] :
              node \in RerunNodes(irs) }
     ELSE {})

InitRerun ==
  \E n \in 1..MaxFuncs :
    \E c \in ProgramChoicesOver(n, TemplatesFor(n)) :
      /\ input = ProgramInput(n, c)
      /\ irByFuncId = ProgramIrs(n, c)
      /\ summaryByFuncId = << >>
      /\ opts = NoOptions
      /\ run = NewRun
      /\ input2 = input
      /\ opts2 = opts
      /\ run2 = NewRun
      /\ ticks = 0
      /\ fs \in RerunFileSystems(n, irByFuncId)
      /\ fs0 = fs
      /\ irHash \in ProgramHashes(n, irByFuncId)
      /\ firstWrite = [k \in CacheKeys |-> NoText]
      /\ last = NoCacheOp
      /\ cli = NoCli
      /\ call = NoCall
      /\ procs = NoProcs

\* The state after an analyze command that returned out.
AnalyzeDone(out) ==
  /\ fs' = out.fs
  /\ cli' = [runs |-> Append(cli.runs, out.run), files |-> out.files]

Analyze ==
  /\ Len(cli.runs) < MaxRuns
  /\ AnalyzeDone(cmdAnalyze(fs, cli.files, input, irByFuncId, irHash))
  /\ ticks' = ticks + 1
  /\ UNCHANGED << fixVars, fs0, irHash, firstWrite, last, libVars >>

NextRerun == Analyze

SpecRerun == InitRerun /\ [][NextRerun]_vars

\* The functions whose cache entry holds a JSON value other than null.
FunctionsWithCachedSummary ==
  { f \in SeqToSet(normalizeMappedCallGraph(input).nodes) :
      /\ fs.dir = "dir"
      /\ fs.entries[irHash[irByFuncId[f]]].kind = "file"
      /\ fs.entries[irHash[irByFuncId[f]]].content.text = "json"
      /\ fs.entries[irHash[irByFuncId[f]]].content.json # JsonNull }

\* C11: when an analyze command has succeeded, every later analyze command
\* on the same inputs and the cache it left succeeds, takes from the cache
\* every summary the cache holds (all of them when the first command started
\* without a cache) and leaves the same output files: flow facts, witnesses,
\* explain bundles and manifest.
C11_WarmRerunSameOutput ==
  \A i, j \in 1..Len(cli.runs) :
    i < j /\ cli.runs[i].exit = 0 =>
      /\ cli.runs[j].exit = 0
      /\ cli.runs[j].files = cli.runs[i].files
      /\ cli.runs[j].hits = FunctionsWithCachedSummary
      /\ fs0.dir = "missing" =>
           cli.runs[j].hits = SeqToSet(normalizeMappedCallGraph(input).nodes)

\* A cold command computed and wrote every summary of a program of two
\* functions with a call between them; the next command took every summary
\* from the cache and wrote flow facts.
C11_Witness ==
  /\ Len(cli.runs) = 2
  /\ fs0.dir = "missing"
  /\ cli.runs[1].exit = 0
  /\ cli.runs[1].hits = {}
  /\ Cardinality(cli.runs[2].hits) = 2
  /\ Len(input.edges) > 0
  /\ Len(cli.runs[2].files.facts) > 1

\* ------------------------------------------------------------------------
\* ir.ts: hashNormalizedFuncIr, and pipeline calls of builds that differ in
\* the analysis config version
\* ------------------------------------------------------------------------

\* The analysis config versions of the builds that share one cache.
ConfigVersions == {1, 2}

\* The digest of a text, held as the text it is the digest of: SHA-256 is
\* taken to be free of collisions.
sha256HexFromUtf8(text) == [sha256 |-> text]

\* A variant that hashes the normalized IR alone.
hashNormalizedFuncIrAlone(ir, analysisConfigVersion) ==
  sha256HexFromUtf8([analysisConfigVersion |-> 0, ir |-> ir])

\* The key of a function: the digest of the canonical serialization of
\* (analysisConfigVersion, normalizedIR).
hashNormalizedFuncIr(ir, analysisConfigVersion) ==
  sha256HexFromUtf8([analysisConfigVersion |-> analysisConfigVersion, ir |-> ir])

VersionKeys == { hashNormalizedFuncIr(ir, v) : ir \in CacheIrs, v \in ConfigVersions }

InitVersion ==
  /\ input = [nodes |-> << >>, edges |-> << >>]
  /\ opts = NoOptions
  /\ irByFuncId = << >>
  /\ summaryByFuncId = << >>
  /\ run = NewRun
  /\ input2 = input
  /\ opts2 = opts
  /\ run2 = NewRun
  /\ ticks = 0
  /\ \E d \in {"missing", "dir"} :
       fs = [dir |-> d, entries |-> [k \in VersionKeys |-> AbsentNode],
             tmp |-> [k \in VersionKeys |-> AbsentNode]]
  /\ fs0 = fs
  /\ irHash = [ir \in CacheIrs |-> "k1"]
  /\ firstWrite = [k \in CacheKeys |-> NoText]
  /\ last = NoCacheOp
  /\ cli = NoCli
  /\ call = NoCall
  /\ procs = NoProcs

\* The state after a pipeline call of a build with config version v that
\* returned out; cli.runs logs the calls.
PipelineDoneUnder(v, ir, key, out) ==
  /\ fs' = out.fs
  /\ last' = CacheOp("pipeline", key, ir, out.written, out.result, fs)
  /\ cli' = [cli EXCEPT !.runs =
               Append(@, [version |-> v, ir |-> ir, key |-> key,
                          status |-> out.result.status,
                          cacheHit |-> out.result.cacheHit])]

CachePipelineUnder ==
  /\ ticks < MaxCacheOps
  /\ \E v \in ConfigVersions :
       \E ir \in CacheIrs :
         PipelineDoneUnder(v, ir, hashNormalizedFuncIr(ir, v),
                           getOrComputeFuncSummaryCheapPassOnly(
                             fs, ir, hashNormalizedFuncIr(ir, v)))
  /\ ticks' = ticks + 1
  /\ UNCHANGED << fixVars, fs0, irHash, firstWrite, libVars >>

NextVersion == CachePipelineUnder

SpecVersion == InitVersion /\ [][NextVersion]_vars

\* C12: one IR has different keys under different config versions, and a
\* lookup is a hit only if an earlier call under the same config version wrote
\* the entry of the same IR: no entry written under another version is
\* returned.
C12_VersionInKey ==
  /\ \A ir \in CacheIrs : \A v1, v2 \in ConfigVersions :
       v1 # v2 => hashNormalizedFuncIr(ir, v1) # hashNormalizedFuncIr(ir, v2)
  /\ \A j \in 1..Len(cli.runs) :
       cli.runs[j].cacheHit =>
         \E i \in 1..(j - 1) :
           /\ cli.runs[i].version = cli.runs[j].version
           /\ cli.runs[i].ir = cli.runs[j].ir
           /\ ~cli.runs[i].cacheHit

\* A lookup under one version missed the entry that a call under the other
\* version had written for the same IR, and the next lookup under its own
\* version hit.
C12_Witness ==
  /\ Len(cli.runs) = 3
  /\ cli.runs[1].ir = cli.runs[2].ir
  /\ cli.runs[2].ir = cli.runs[3].ir
  /\ cli.runs[1].version # cli.runs[2].version
  /\ cli.runs[1].status = "ok"
  /\ ~cli.runs[2].cacheHit
  /\ cli.runs[3].version = cli.runs[2].version
  /\ cli.runs[3].cacheHit

\* ------------------------------------------------------------------------
\* interproc_propagation.ts: the edges lifted at callsites, seen in the run
\* ------------------------------------------------------------------------

\* The per-function input of f and the local graph computeFuncStateV2 searches
\* for f from the current states: base adjacency plus lifted edges.
LocalFunc(f) == FuncInputV2(f, irByFuncId[f], summaryByFuncId[f])

LocalGraph(f) ==
  LocalFunc(f).baseAdj
    \cup ExtraAdj(LocalFunc(f), CalleesByCallsite(run.graph, f), run.stateByFuncId)

\* The (callsite, callee) pairs of caller f that the call graph links.
LinkedCallsites(f) ==
  LET infos == LocalFunc(f).callsites
      byCallsite == CalleesByCallsite(run.graph, f)
  IN UNION { { [info |-> infos[k], callee |-> g] :
                 g \in IF infos[k].callsiteId \in DOMAIN byCallsite
                         THEN byCallsite[infos[k].callsiteId] ELSE {} } :
               k \in 1..Len(infos) }

FactsOf(f) == run.stateByFuncId[f].facts

VarFlowNode(f, id) == FlowNode("var", f, id, NoStmt, -1, NoHeap)
ReturnFlowNode(f) == FlowNode("return", f, NoVar, NoStmt, -1, NoHeap)
CallArgFlowNode(c, i) == FlowNode("call_arg", NoFunc, NoVar, c, i, NoHeap)
HeapReadFlowNode(h) == FlowNode("heap_read", NoFunc, NoVar, NoStmt, -1, h)
HeapWriteFlowNode(h) == FlowNode("heap_write", NoFunc, NoVar, NoStmt, -1, h)

\* The facts a source has when it reaches local node n: one for each return,
\* call_arg and heap_write that n reaches in f's base adjacency.
FactsThrough(f, from, n) ==
  EmittedFacts(f, from, Visited({n}, LocalFunc(f).baseAdj))

\* C15: when parameter i of callee G reaches G's return, every callsite c of a
\* caller F that is linked to G, has a destination d and passes an argument i
\* has the edge call_arg(c,i) -> var(d) in F's local graph; once the run has
\* returned, every source of F with a fact to call_arg(c,i) has a fact to
\* everything d reaches.
C15_ParamReturnLifted ==
  run.pc \in {"loop", "returned"} =>
    \A f \in Nodes : \A l \in LinkedCallsites(f) :
      \A i \in 0..(l.info.argCount - 1) :
        /\ l.info.dst # NoVar
        /\ FlowFact(VarFlowNode(l.callee, createParamVarId(i)), ReturnFlowNode(l.callee))
             \in FactsOf(l.callee)
        => /\ << callArgNode(l.info.callsiteId, i), varNode(l.info.dst) >> \in LocalGraph(f)
           /\ run.pc = "returned" =>
                \A fact \in FactsOf(f) :
                  fact.to = CallArgFlowNode(l.info.callsiteId, i) =>
                    FactsThrough(f, fact.from, varNode(l.info.dst)) \subseteq FactsOf(f)

\* The two-hop case: the run returned, a caller passes its parameter p0 to a
\* callee whose p0 reaches its return, and the caller holds p0 -> return, which
\* its own body does not give.
C15_Witness ==
  /\ run.pc = "returned"
  /\ \E f \in Nodes : \E l \in LinkedCallsites(f) :
       /\ l.callee # f
       /\ l.info.dst # NoVar
       /\ l.info.argCount > 0
       /\ FlowFact(VarFlowNode(l.callee, "p0"), ReturnFlowNode(l.callee)) \in FactsOf(l.callee)
       /\ FlowFact(VarFlowNode(f, "p0"), CallArgFlowNode(l.info.callsiteId, 0)) \in FactsOf(f)
       /\ FlowFact(VarFlowNode(f, "p0"), ReturnFlowNode(f)) \in FactsOf(f)
       /\ RETURN_NODE \notin Visited({varNode("p0")}, LocalFunc(f).baseAdj)

\* The property names of the heap buckets in the facts of the run.
PropertyNames ==
  UNION { { n.heapId.propertyName :
              n \in { x \in { fact.from : fact \in FactsOf(f) } \cup
                              { fact.to : fact \in FactsOf(f) } :
                        x.kind \in {"heap_read", "heap_write"} } } :
            f \in Nodes }

\* The bucket (synthetic anchor of parameter k of g, prop), and whether g has
\* a parameter k.
ParamBucket(g, k, prop) == createHeapId(syntheticHeapAnchorId(g, createParamVarId(k)), prop)

HasParam(g, k) == k >= 0 /\ k < Len(irByFuncId[g].params)

\* anchor_F(a) of a caller variable a, and the caller's bucket of argument k at
\* a callsite whose k-th argument is a variable.
CallerAnchor(f, a) == heapAnchorForVar(LocalFunc(f).heapAnchorByVar, f, a)

ArgBucket(f, info, k, prop) == createHeapId(CallerAnchor(f, info.argVars[k + 1]), prop)

\* C16: when callee G has p_j -> heap_write(bucket of G's parameter k, prop),
\* every callsite c of a caller F linked to G that passes an argument j and
\* whose k-th argument is a variable a_k has the edge
\* call_arg(c,j) -> heap_write(HeapId(anchor_F(a_k), prop)) in F's local graph;
\* once the run has returned, every source of F with a fact to call_arg(c,j)
\* has a fact to that heap_write.
C16_ParamHeapWriteLifted ==
  LET props == PropertyNames IN
  run.pc \in {"loop", "returned"} =>
    \A f \in Nodes : \A l \in LinkedCallsites(f) :
      \A j, k \in 0..(l.info.argCount - 1) : \A prop \in props :
        /\ HasParam(l.callee, j) /\ HasParam(l.callee, k)
        /\ l.info.argVars[k + 1] # NoVar
        /\ FlowFact(VarFlowNode(l.callee, createParamVarId(j)),
                    HeapWriteFlowNode(ParamBucket(l.callee, k, prop))) \in FactsOf(l.callee)
        => /\ << callArgNode(l.info.callsiteId, j),
                 heapWriteNode(ArgBucket(f, l.info, k, prop)) >> \in LocalGraph(f)
           /\ run.pc = "returned" =>
                \A fact \in FactsOf(f) :
                  fact.to = CallArgFlowNode(l.info.callsiteId, j) =>
                    FlowFact(fact.from, HeapWriteFlowNode(ArgBucket(f, l.info, k, prop)))
                      \in FactsOf(f)

\* a(x,y){ setX(x,y); } with setX(obj,val){ obj.x = val; }: the run returned and
\* a holds var(a.p1) -> heap_write(HeapId(synth(a,0), "x")), while a's own body
\* has no heap write.
C16_Witness ==
  /\ run.pc = "returned"
  /\ \E f \in Nodes : \E l \in LinkedCallsites(f) :
       /\ l.callee # f
       /\ irByFuncId[f] = TemplateIr("callStmt", f)
       /\ irByFuncId[l.callee] = TemplateIr("setX", l.callee)
       /\ FlowFact(VarFlowNode(f, "p1"), HeapWriteFlowNode(ParamBucket(f, 0, "x")))
            \in FactsOf(f)
       /\ \A e \in LocalFunc(f).baseAdj : ~isHeapWriteNode(e[2])

\* C17: when callee G has heap_read(bucket of G's parameter k, prop) -> return,
\* every callsite c of a caller F linked to G that has a destination d and
\* whose k-th argument is a variable a_k has the edge
\* heap_read(HeapId(anchor_F(a_k), prop)) -> var(d) in F's local graph; once the
\* run has returned, that heap_read is a source of F: F holds a fact from it to
\* everything d reaches.
C17_HeapReadReturnLifted ==
  LET props == PropertyNames IN
  run.pc \in {"loop", "returned"} =>
    \A f \in Nodes : \A l \in LinkedCallsites(f) :
      \A k \in 0..(l.info.argCount - 1) : \A prop \in props :
        /\ l.info.dst # NoVar
        /\ HasParam(l.callee, k)
        /\ l.info.argVars[k + 1] # NoVar
        /\ FlowFact(HeapReadFlowNode(ParamBucket(l.callee, k, prop)),
                    ReturnFlowNode(l.callee)) \in FactsOf(l.callee)
        => /\ << heapReadNode(ArgBucket(f, l.info, k, prop)), varNode(l.info.dst) >>
                \in LocalGraph(f)
           /\ run.pc = "returned" =>
                FactsThrough(f, HeapReadFlowNode(ArgBucket(f, l.info, k, prop)),
                             varNode(l.info.dst)) \subseteq FactsOf(f)

\* a(x){ const v = getX(x); return v; } with getX(obj){ const v = obj.x; return v; }:
\* the run returned and a, whose body reads no heap, holds
\* heap_read(HeapId(synth(a,0), "x")) -> return(a).
C17_Witness ==
  /\ run.pc = "returned"
  /\ \E f \in Nodes : \E l \in LinkedCallsites(f) :
       /\ l.callee # f
       /\ irByFuncId[f] = TemplateIr("call1", f)
       /\ irByFuncId[l.callee] = TemplateIr("getX", l.callee)
       /\ FlowFact(HeapReadFlowNode(ParamBucket(f, 0, "x")), ReturnFlowNode(f)) \in FactsOf(f)
       /\ \A e \in LocalFunc(f).baseAdj : ~isHeapReadNode(e[1])

\* C18: once the run has returned, when callee G has heap_read(bucket of G's
\* parameter i, p) -> heap_write(bucket of G's parameter j, q), every caller F
\* with a callsite linked to G whose i-th and j-th arguments are variables a_i
\* and a_j holds the fact
\* heap_read(HeapId(anchor_F(a_i), p)) -> heap_write(HeapId(anchor_F(a_j), q)).
C18_HeapReadHeapWriteLifted ==
  LET props == PropertyNames IN
  run.pc = "returned" =>
    \A f \in Nodes : \A l \in LinkedCallsites(f) :
      \A i, j \in 0..(l.info.argCount - 1) : \A p, q \in props :
        /\ HasParam(l.callee, i) /\ HasParam(l.callee, j)
        /\ l.info.argVars[i + 1] # NoVar
        /\ l.info.argVars[j + 1] # NoVar
        /\ FlowFact(HeapReadFlowNode(ParamBucket(l.callee, i, p)),
                    HeapWriteFlowNode(ParamBucket(l.callee, j, q))) \in FactsOf(l.callee)
        => FlowFact(HeapReadFlowNode(ArgBucket(f, l.info, i, p)),
                    HeapWriteFlowNode(ArgBucket(f, l.info, j, q))) \in FactsOf(f)

\* a(x,y){ copy(x,y); } with copy(a,b){ const v = a.x; b.y = v; }: the run
\* returned and a, whose body touches no heap, holds
\* heap_read(HeapId(synth(a,0), "x")) -> heap_write(HeapId(synth(a,1), "y")).
C18_Witness ==
  /\ run.pc = "returned"
  /\ \E f \in Nodes : \E l \in LinkedCallsites(f) :
       /\ l.callee # f
       /\ irByFuncId[f] = TemplateIr("callStmt", f)
       /\ irByFuncId[l.callee] = TemplateIr("copy", l.callee)
       /\ FlowFact(HeapReadFlowNode(ParamBucket(f, 0, "x")),
                   HeapWriteFlowNode(ParamBucket(f, 1, "y"))) \in FactsOf(f)
       /\ \A e \in LocalFunc(f).baseAdj : ~isHeapReadNode(e[1]) /\ ~isHeapWriteNode(e[2])

\* ------------------------------------------------------------------------
\* Specification of a run over a caller with several callees at one callsite
\* ------------------------------------------------------------------------

\* The caller is the first function, with a call body; the other functions
\* have bodies without calls; the call graph links the caller's callsite to
\* any set of functions.
InitUnion ==
  \E t \in CallTemplates : \E cs \in SUBSET SeqToSet(FuncUniverse) :
    \E leaf \in [SeqToSet(FuncUniverse) \ {FuncUniverse[1]} -> LeafTemplates] :
      /\ InitProgram(Len(FuncUniverse),
                     [template |-> [f \in SeqToSet(FuncUniverse) |->
                                      IF f = FuncUniverse[1] THEN t ELSE leaf[f]],
                      callees |-> [f \in SeqToSet(FuncUniverse) |->
                                     IF f = FuncUniverse[1] THEN cs ELSE {}]])
      /\ opts = NoOptions
      /\ input2 = input
      /\ opts2 = opts

SpecUnion == InitUnion /\ [][Next]_vars

\* The edges lifted at a callsite of f when the call graph links it to callees.
CallsiteLift(f, info, callees) ==
  LiftedEdges(LocalFunc(f), info, callees, run.stateByFuncId)

\* The callees the call graph links to a callsite of f.
CalleesAt(f, info) == { l.callee : l \in { x \in LinkedCallsites(f) : x.info = info } }

\* C19: the edges lifted at a callsite are the union, over the callees the call
\* graph links to it, of the edges lifted when that callee is the only one; and
\* once the run has returned, the caller holds every fact it would hold with
\* any one of the callees alone.
C19_CalleeEffectsUnioned ==
  run.pc \in {"loop", "returned"} =>
    \A f \in Nodes : \A k \in 1..Len(LocalFunc(f).callsites) :
      LET info == LocalFunc(f).callsites[k]
      IN /\ CallsiteLift(f, info, CalleesAt(f, info))
              = UNION { CallsiteLift(f, info, {g}) : g \in CalleesAt(f, info) }
         /\ run.pc = "returned" =>
              \A g \in CalleesAt(f, info) :
                ComputeFacts(LocalFunc(f), [c \in {info.callsiteId} |-> {g}],
                             run.stateByFuncId) \subseteq FactsOf(f)

\* The run returned and a callsite has two callees that contribute different
\* edges, neither set containing the other.
C19_Witness ==
  /\ run.pc = "returned"
  /\ \E f \in Nodes : \E k \in 1..Len(LocalFunc(f).callsites) :
       LET info == LocalFunc(f).callsites[k]
       IN \E g1, g2 \in CalleesAt(f, info) \ {f} :
            /\ ~(CallsiteLift(f, info, {g1}) \subseteq CallsiteLift(f, info, {g2}))
            /\ ~(CallsiteLift(f, info, {g2}) \subseteq CallsiteLift(f, info, {g1}))

\* ------------------------------------------------------------------------
\* Specification of a run whose IR and summary maps may lack functions
\* ------------------------------------------------------------------------

\* The sets of functions a map holds: any subset of the program's functions
\* (for the programs of more than two functions, all of them or all but one).
PresentSets(n) ==
  IF n <= 2 THEN SUBSET Funcs(n)
  ELSE { Funcs(n) } \cup { Funcs(n) \ {f} : f \in Funcs(n) }

\* irByFuncId and summaryByFuncId each hold some of the program's functions.
InitMissing ==
  \E n \in 1..MaxFuncs :
    \E c \in ProgramChoicesOver(n, CoreTemplates) :
      \E withIr \in PresentSets(n) : \E withSummary \in PresentSets(n) :
        /\ input = ProgramInput(n, c)
        /\ irByFuncId = [f \in withIr |-> ProgramIrs(n, c)[f]]
        /\ summaryByFuncId = [f \in withSummary |-> ProgramSummaries(n, c)[f]]
        /\ run = NewRun
        /\ run2 = NewRun
        /\ ticks = 0
        /\ IdleCache
        /\ opts = NoOptions
        /\ input2 = input
        /\ opts2 = opts

SpecMissing == InitMissing /\ [][Next]_vars

\* The nodes of the mapped call graph of the input.
InputGraph == normalizeMappedCallGraph(input)

IncompleteNodes ==
  { f \in SeqToSet(InputGraph.nodes) :
      f \notin DOMAIN irByFuncId \/ f \notin DOMAIN summaryByFuncId }

\* C20: when some node of the mapped call graph has no IR or no summary, the
\* run fails at its start with the error of the first such node and computes
\* no state and no facts for any function; it never enters the loop and never
\* returns.
C20_MissingInputFatal ==
  InputGraph.ok /\ IncompleteNodes # {} /\ run.pc # "start" =>
    /\ run.pc = "threw"
    /\ run.error \in {"MissingIR", "MissingSummary"}
    /\ run.error = "MissingIR" <=>
         InputGraph.nodes[FirstIncompleteNode(InputGraph, irByFuncId, summaryByFuncId)]
           \notin DOMAIN irByFuncId
    /\ run.stateByFuncId = << >>
    /\ run.steps = 0

\* The run failed for a graph of two nodes of which the first has IR and
\* summary and the second has IR but no summary.
C20_Witness ==
  /\ run.pc = "threw"
  /\ run.error = "MissingSummary"
  /\ Len(InputGraph.nodes) = 2
  /\ InputGraph.nodes[1] \notin IncompleteNodes
  /\ InputGraph.nodes[2] \in DOMAIN irByFuncId
  /\ InputGraph.nodes[2] \notin DOMAIN summaryByFuncId

\* ------------------------------------------------------------------------
\* Specification of normalizeFuncSummary on candidate summaries
\* ------------------------------------------------------------------------

\* A call of a function of the library: what it is given and what it returns.
LibCall(op, in, out) == [op |-> op, input |-> in, output |-> out]

\* The functions whose summaries are normalized: each has heap accesses or a
\* callsite.
SummaryIrs ==
  { TemplateIr(t, FuncUniverse[1]) : t \in {"getX", "copy", "call1", "call2"} }

\* The nodes a candidate edge may name: variables the function declares or
\* not, callsites of the function, of another function and a statement that
\* is not a call, argument indexes in and out of range, heap buckets of the
\* function that the baseline mentions or not, and heap buckets of another
\* function.
CandidateVars == {"p0", "p1", "v0", "v2"}
CandidateCallArgs ==
  { CallArgNodeOf(S(f, i), k) : f \in {FuncUniverse[1], FuncUniverse[2]}, i \in {0, 1},
                                k \in {0, 1} }
CandidateHeapIds ==
  { createHeapId(syntheticHeapAnchorId(f, "p0"), prop) :
      f \in {FuncUniverse[1], FuncUniverse[2]}, prop \in {"x", "y"} }
CandidateFromNodes ==
  { VarNodeOf(id) : id \in CandidateVars } \cup
  { HeapReadNodeOf(h) : h \in CandidateHeapIds }
CandidateToNodes ==
  { VarNodeOf(id) : id \in CandidateVars } \cup CandidateCallArgs \cup
  { HeapWriteNodeOf(h) : h \in CandidateHeapIds } \cup {ReturnNodeOf}

\* The candidates for ir: its baseline edges and one more edge.
CandidateSummaries(ir) ==
  { FuncSummary(FUNC_SUMMARY_SCHEMA_VERSION, ir.funcId,
                BaselineEdges(ir) \o << Edge(from, to) >>) :
      from \in CandidateFromNodes, to \in CandidateToNodes }

InitSummary ==
  /\ IdleRun
  /\ IdleStore
  /\ procs = NoProcs
  /\ \E ir \in SummaryIrs :
       \E value \in CandidateSummaries(ir) :
         call = LibCall("candidate", [ir |-> ir, value |-> value], << >>)

NormalizeSummary ==
  /\ call.op = "candidate"
  /\ call' = LibCall("normalizeFuncSummary", call.input,
                     normalizeFuncSummary(call.input.value, call.input.ir,
                                          BaselineEdges(call.input.ir),
                                          DEFAULT_FUNC_SUMMARY_BOUNDS))
  /\ UNCHANGED << fixVars, ticks, cacheVars, cli, procs >>

NextSummary == NormalizeSummary

SpecSummary == InitSummary /\ [][NextSummary]_vars

\* The nodes of a sequence of edges.
NodesOfEdges(edges) ==
  { edges[i].from : i \in 1..Len(edges) } \cup { edges[i].to : i \in 1..Len(edges) }

\* TRUE iff the node names only what belongs to the function of ir: a heap
\* bucket or a callsite in the function's file and span, a variable among
\* its params and locals.
NodeWithinFunction(n, ir) ==
  /\ n.kind \in {"heap_read", "heap_write"} => n.heapId.site.funcId = ir.funcId
  /\ n.kind = "call_arg" => n.callsiteId.funcId = ir.funcId
  /\ n.kind = "var" => n.id \in SeqToSet(ir.params) \cup SeqToSet(ir.locals)

\* C21: every edge of a summary that normalizeFuncSummary returns names only
\* heap buckets and callsites in the file and span of the summarized function
\* and variables its IR declares; a candidate with an edge that names
\* anything else is rejected.
C21_SpanMembership ==
  call.op = "normalizeFuncSummary" =>
    /\ call.output.ok =>
         \A n \in NodesOfEdges(call.output.summary.edges) :
           NodeWithinFunction(n, call.input.ir)
    /\ (\E n \in NodesOfEdges(call.input.value.edges) :
          ~NodeWithinFunction(n, call.input.ir))
       => /\ ~call.output.ok
          /\ call.output.error = "UndeclaredId"

\* A candidate whose only flaw is a heap bucket of another function was
\* rejected.
C21_Witness ==
  /\ call.op = "normalizeFuncSummary"
  /\ ~call.output.ok
  /\ call.output.error = "UndeclaredId"
  /\ \E n \in NodesOfEdges(call.input.value.edges) :
       /\ n.kind = "heap_write"
       /\ n.heapId.site.funcId # call.input.ir.funcId
  /\ \A n \in NodesOfEdges(call.input.value.edges) :
       n.kind # "heap_write" => NodeWithinFunction(n, call.input.ir)

\* ------------------------------------------------------------------------
\* Specification of the cheap pass, statement by statement
\* ------------------------------------------------------------------------

\* The longest statement list of the functions the pass is run on.
MaxStmts == 3

\* The function the pass is run on: f(p0, p1) with the locals v0 and v1.
CheapFunc == FuncUniverse[1]

\* The statements a function body is made of, as the statement at index i:
\* copies, an assignment of a non-variable, calls with and without a
\* destination, an allocation, and member reads and writes with named and
\* dynamic keys.
StmtShapes(i) ==
  { IrStmt("assign", S(CheapFunc, i), "v0", << RVar("p0") >>, NoVar, NoKey),
    IrStmt("assign", S(CheapFunc, i), "v1", << RVar("v0") >>, NoVar, NoKey),
    IrStmt("assign", S(CheapFunc, i), "v0", << RUnknown >>, NoVar, NoKey),
    IrStmt("call", S(CheapFunc, i), "v0", << RVar("p1") >>, NoVar, NoKey),
    IrStmt("call", S(CheapFunc, i), NoVar, << RVar("v0") >>, NoVar, NoKey),
    IrStmt("alloc", S(CheapFunc, i), "v1", << >>, NoVar, NoKey),
    IrStmt("member_read", S(CheapFunc, i), "v1", << >>, "v0", NamedKey("x")),
    IrStmt("member_read", S(CheapFunc, i), "v0", << >>, "v1", DynamicKey),
    IrStmt("member_write", S(CheapFunc, i), NoVar, << RVar("p1") >>, "v0", NamedKey("x")),
    IrStmt("member_write", S(CheapFunc, i), NoVar, << RVar("p0") >>, "v1", NamedKey("y")) }

\* The function bodies of up to MaxStmts statements.
CheapIrs ==
  { FuncIR(CheapFunc, << "p0", "p1" >>, << "v0", "v1" >>, stmts) :
      stmts \in UNION { { q \in [1..n -> UNION { StmtShapes(i) : i \in 0..(n - 1) }] :
                            \A i \in 1..n : q[i] \in StmtShapes(i - 1) } : n \in 1..MaxStmts } }

\* The working state of runCheapStaticPassV2 after k statements: the anchors
\* before and after statement k and the edges statement k pushed.
CheapState(k, before, anchors, pushed, edges, result) ==
  [k |-> k, before |-> before, anchors |-> anchors, pushed |-> pushed, edges |-> edges,
   result |-> result]

InitCheap ==
  /\ IdleRun
  /\ IdleStore
  /\ procs = NoProcs
  /\ \E ir \in CheapIrs :
       call = LibCall("runCheapStaticPassV2", ir,
                      CheapState(0, InitialHeapAnchors(ir), InitialHeapAnchors(ir), << >>,
                                 << >>, << >>))

\* One turn of the loop over ir.stmts.
CheapStatement ==
  /\ call.op = "runCheapStaticPassV2"
  /\ call.output.k < Len(call.input.stmts)
  /\ call' = [call EXCEPT !.output =
                CheapState(call.output.k + 1,
                           call.output.anchors,
                           CheapStmtAnchors(call.input, call.input.stmts[call.output.k + 1],
                                            call.output.anchors),
                           CheapStmtEdges(call.input, call.input.stmts[call.output.k + 1],
                                          call.output.anchors),
                           call.output.edges \o
                             CheapStmtEdges(call.input, call.input.stmts[call.output.k + 1],
                                            call.output.anchors),
                           << >>)]
  /\ UNCHANGED << fixVars, ticks, cacheVars, cli, procs >>

\* After the loop the edges are de-duplicated and sorted, and returned.
CheapReturn ==
  /\ call.op = "runCheapStaticPassV2"
  /\ call.output.k = Len(call.input.stmts)
  /\ call' = LibCall("returned", call.input,
                     [call.output EXCEPT !.result =
                        stableSort(DedupeSeq(call.output.edges), "cmpCheapDepEdge")])
  /\ UNCHANGED << fixVars, ticks, cacheVars, cli, procs >>

NextCheap == CheapStatement \/ CheapReturn

SpecCheap == InitCheap /\ [][NextCheap]_vars

\* TRUE iff the statement gives the variable a value.
Defines(st, v) ==
  /\ st.kind \in {"assign", "call", "await", "alloc", "member_read", "select", "short_circuit"}
  /\ st.dst = v

RECURSIVE AnchorAt(_, _, _)
\* The anchor of v after the first k statements, from the most recent
\* statement among them that defines v: the anchor the source had before a
\* copy, the statement's own id (the callsite id of a call) otherwise, and
\* the synthetic anchor of v when no statement defines it.
AnchorAt(ir, k, v) ==
  LET defs == { j \in 1..k : Defines(ir.stmts[j], v) }
      j == CHOOSE j \in defs : \A i \in defs : i <= j
  IN IF defs = {} THEN syntheticHeapAnchorId(ir.funcId, v)
     ELSE IF ir.stmts[j].kind = "assign" /\ rvalueToVarId(ir.stmts[j].args[1]) # NoVar
       THEN AnchorAt(ir, j - 1, rvalueToVarId(ir.stmts[j].args[1]))
     ELSE ir.stmts[j].stmtId

\* The statement the pass has processed last.
CheapLast == call.input.stmts[call.output.k]

\* C22: after any prefix of the statements every declared variable holds the
\* anchor its most recent defining statement determines; a copy gives its
\* destination the anchor the source had before it, a call with a destination
\* gives it the callsite id, and the edge of a member read or write is
\* bucketed under the anchor the object variable held before the statement.
C22_AnchorPropagation ==
  call.op = "runCheapStaticPassV2" =>
    /\ \A v \in SeqToSet(call.input.params) \cup SeqToSet(call.input.locals) :
         call.output.anchors[v] = AnchorAt(call.input, call.output.k, v)
    /\ call.output.k > 0 =>
         /\ CheapLast.kind = "assign" /\ rvalueToVarId(CheapLast.args[1]) # NoVar =>
              call.output.anchors[CheapLast.dst] =
                call.output.before[rvalueToVarId(CheapLast.args[1])]
         /\ CheapLast.kind = "call" /\ CheapLast.dst # NoVar =>
              call.output.anchors[CheapLast.dst] = CheapLast.stmtId
         /\ CheapLast.kind = "member_read" =>
              call.output.pushed =
                << Edge(HeapReadNodeOf(
                          createHeapId(AnchorAt(call.input, call.output.k - 1, CheapLast.object),
                                       propertyKeyToBucketName(CheapLast.property))),
                        VarNodeOf(CheapLast.dst)) >>
         /\ CheapLast.kind = "member_write" =>
              call.output.pushed =
                << Edge(VarNodeOf(rvalueToVarId(CheapLast.args[1])),
                        HeapWriteNodeOf(
                          createHeapId(AnchorAt(call.input, call.output.k - 1, CheapLast.object),
                                       propertyKeyToBucketName(CheapLast.property)))) >>

\* A member read on a variable that was copied from the destination of a
\* call is bucketed under the callsite id.
C22_Witness ==
  /\ call.op = "runCheapStaticPassV2"
  /\ call.output.k = 3
  /\ call.input.stmts[1].kind = "call"
  /\ call.input.stmts[1].dst = "v0"
  /\ call.input.stmts[2].kind = "assign"
  /\ call.input.stmts[2].args = << RVar("v0") >>
  /\ CheapLast.kind = "member_read"
  /\ CheapLast.object = "v1"
  /\ call.output.pushed[1].from.heapId = createHeapId(call.input.stmts[1].stmtId, "*")

\* ------------------------------------------------------------------------
\* Specification of runs over call graphs whose callsites may lie in another
\* function than the caller
\* ------------------------------------------------------------------------

\* For each caller, the function in whose span the callsite of its edges
\* lies: any function of up to two, the caller itself or the first function
\* of more.
CallsiteOwners(n) ==
  IF n <= 2 THEN [Funcs(n) -> Funcs(n)]
  ELSE { [f \in Funcs(n) |-> f], [f \in Funcs(n) |-> FuncUniverse[1]] }

\* The edges with the callsite of each moved into the span of its owner.
EdgesOwnedBy(edges, owner) ==
  [i \in 1..Len(edges) |->
     MappedCallEdge(edges[i].callerFuncId, edges[i].calleeFuncId,
                    createStmtId(owner[edges[i].callerFuncId],
                                 edges[i].callsiteId.statementIndex))]

InitForeign ==
  \E n \in 1..MaxFuncs :
    \E c \in ProgramChoicesOver(n, CoreTemplates) :
      \E owner \in CallsiteOwners(n) :
        /\ input = [nodes |-> ProgramInput(n, c).nodes,
                    edges |-> EdgesOwnedBy(ProgramInput(n, c).edges, owner)]
        /\ irByFuncId = ProgramIrs(n, c)
        /\ summaryByFuncId = ProgramSummaries(n, c)
        /\ run = NewRun
        /\ run2 = NewRun
        /\ ticks = 0
        /\ IdleCache
        /\ opts = NoOptions
        /\ input2 = input
        /\ opts2 = opts

SpecForeign == InitForeign /\ [][Next]_vars

\* The edges of the input whose callsite is not in the caller's file and span.
ForeignEdges ==
  { i \in 1..Len(input.edges) :
      \/ input.edges[i].callsiteId.funcId.filePath # input.edges[i].callerFuncId.filePath
      \/ input.edges[i].callsiteId.funcId.startOffset # input.edges[i].callerFuncId.startOffset
      \/ input.edges[i].callsiteId.funcId.endOffset # input.edges[i].callerFuncId.endOffset }

\* C23: every edge of the graph the worklist driver runs on has its callsite
\* in the file and span of its caller; an input with an edge whose callsite
\* lies in another function is rejected with an error before any step, and
\* no graph is built from it.
C23_CallsiteInCaller ==
  /\ \A i \in 1..Len(run.graph.edges) :
       run.graph.edges[i].callsiteId.funcId = run.graph.edges[i].callerFuncId
  /\ ForeignEdges # {} /\ run.pc # "start" =>
       /\ run.pc = "threw"
       /\ run.error = "CallsiteNotInCaller"
       /\ run.graph = EmptyGraph
       /\ run.steps = 0
       /\ run.stateByFuncId = << >>

\* A graph with one edge whose callsite lies in the callee was rejected.
C23_Witness ==
  /\ run.pc = "threw"
  /\ run.error = "CallsiteNotInCaller"
  /\ \E i \in ForeignEdges :
       input.edges[i].callsiteId.funcId = input.edges[i].calleeFuncId

\* ------------------------------------------------------------------------
\* jelly_func_mapping.ts, jelly_callsite_mapping.ts: file path resolution
\* ------------------------------------------------------------------------

\* String functions on the file paths of the model.
toLowerCase(p) ==
  CASE p \in {"Src/a.ts", "src/A.ts"} -> "src/a.ts"
    [] p = "A.ts" -> "a.ts"
    [] OTHER -> p

basename(p) ==
  CASE p \in {"src/a.ts", "Src/a.ts", "lib/a.ts", "a.ts"} -> "a.ts"
    [] p = "src/A.ts" -> "A.ts"
    [] p = "src/b.ts" -> "b.ts"
    [] p = "lib/c.ts" -> "c.ts"
    [] OTHER -> p

pathSegments(p) ==
  CASE p = "src/a.ts" -> << "src", "a.ts" >>
    [] p = "Src/a.ts" -> << "Src", "a.ts" >>
    [] p = "src/A.ts" -> << "src", "A.ts" >>
    [] p = "src/b.ts" -> << "src", "b.ts" >>
    [] p = "lib/a.ts" -> << "lib", "a.ts" >>
    [] p = "lib/c.ts" -> << "lib", "c.ts" >>
    [] OTHER -> << p >>

\* The paths of a normalized Jelly graph are repo-relative POSIX paths
\* without "./" prefix and without empty segments: lenient normalization
\* leaves them as they are.
lenientNormalizePath(p) == [normalized |-> p, changed |-> FALSE]

isSuffixSegments(shorter, longer) ==
  /\ Len(shorter) <= Len(longer)
  /\ \A i \in 1..Len(shorter) : shorter[i] = longer[Len(longer) - Len(shorter) + i]

\* What resolveFilePath returns: kind is "ok", "missing" or "ambiguous".
ResolvedFilePath(kind, filePath, warn, message) ==
  [kind |-> kind, filePath |-> filePath, warn |-> warn, message |-> message]

\* The suffix matches among the candidates, each with its matching segments.
SuffixMatches(candidates, normalized) ==
  { [filePath |-> fp,
     matchSegments |-> IF Len(pathSegments(fp)) < Len(pathSegments(normalized))
                         THEN Len(pathSegments(fp)) ELSE Len(pathSegments(normalized))] :
      fp \in { c \in candidates :
                 \/ isSuffixSegments(pathSegments(c), pathSegments(normalized))
                 \/ isSuffixSegments(pathSegments(normalized), pathSegments(c)) } }

\* The suffix matching at the end of resolveFilePath.
ResolveBySuffix(matches) ==
  LET best == { m \in matches : \A o \in matches : o.matchSegments <= m.matchSegments }
  IN IF matches = {}
       THEN ResolvedFilePath("missing", "", "",
              "Jelly filePath basename matches analyzed files, but no suffix match found")
     ELSE IF Cardinality(best) # 1
       THEN ResolvedFilePath("ambiguous", "", "",
                             "Jelly filePath suffix-matches multiple analyzed files")
     ELSE ResolvedFilePath("ok", (CHOOSE m \in best : TRUE).filePath,
                           "Suffix match for Jelly filePath", "")

\* The lenient part of resolveFilePath; filePaths is the set of analyzed files.
ResolveLenient(filePaths, normalized, lowerMatches, byBase, byBaseLower) ==
  IF normalized \in filePaths THEN ResolvedFilePath("ok", normalized, "", "")
  ELSE IF Cardinality(lowerMatches) = 1
    THEN ResolvedFilePath("ok", CHOOSE fp \in lowerMatches : TRUE,
                          "Case-insensitive match for Jelly filePath", "")
  ELSE IF lowerMatches # {}
    THEN ResolvedFilePath("ambiguous", "", "",
                          "Jelly filePath matches multiple analyzed files (case-insensitive)")
  ELSE IF byBase = {} /\ byBaseLower = {}
    THEN ResolvedFilePath("missing", "", "", "Jelly filePath does not match any analyzed file")
  ELSE ResolveBySuffix(SuffixMatches(IF byBase # {} THEN byBase ELSE byBaseLower, normalized))

resolveFilePath(filePaths, jellyFilePath, mode) ==
  IF jellyFilePath \in filePaths THEN ResolvedFilePath("ok", jellyFilePath, "", "")
  ELSE IF mode = "strict"
    THEN ResolvedFilePath("missing", "", "", "Jelly filePath is not in analyzed source files")
  ELSE ResolveLenient(
         filePaths, lenientNormalizePath(jellyFilePath).normalized,
         { fp \in filePaths :
             toLowerCase(fp) = toLowerCase(lenientNormalizePath(jellyFilePath).normalized) },
         { fp \in filePaths : basename(fp) = basename(jellyFilePath) },
         { fp \in filePaths : toLowerCase(basename(fp)) = toLowerCase(basename(jellyFilePath)) })

\* ------------------------------------------------------------------------
\* jelly_func_mapping.ts: mapJellyFunctionNodesToFuncIds
\* ------------------------------------------------------------------------

\* stableSort with the comparator given as an operator: an element moves
\* behind those that compare smaller and, among equals, those that come first.
stableSortBy(values, cmp(_, _)) ==
  LET rank(j) == Cardinality({ k \in 1..Len(values) :
                                 \/ cmp(values[k], values[j]) < 0
                                 \/ cmp(values[k], values[j]) = 0 /\ k < j })
  IN [i \in 1..Len(values) |-> values[CHOOSE j \in 1..Len(values) : rank(j) = i - 1]]

\* A Jelly function node; its name is absent.
JellyFunctionNode(id, filePath, startOffset, endOffset) ==
  [id |-> id, filePath |-> filePath, startOffset |-> startOffset, endOffset |-> endOffset]

\* The function index is the set of FuncIds of the indexed functions.
FunctionBySpan(functionIndex, filePath, startOffset, endOffset) ==
  IF createFuncId(filePath, startOffset, endOffset) \in functionIndex
    THEN createFuncId(filePath, startOffset, endOffset) ELSE NoFunc

NodeDiagnostic(level, n, resolvedFilePath, message) ==
  [level |-> level, nodeId |-> n.id, jellyFilePath |-> n.filePath,
   resolvedFilePath |-> resolvedFilePath, startOffset |-> n.startOffset,
   endOffset |-> n.endOffset, message |-> message]

cmpNodeDiagnostic(a, b) ==
  OrElse(cmpString(a.jellyFilePath, b.jellyFilePath),
  OrElse(cmpNumber(a.startOffset, b.startOffset),
  OrElse(cmpNumber(a.endOffset, b.endOffset),
  OrElse(cmpString(a.nodeId, b.nodeId),
  OrElse(cmpString(a.level, b.level), cmpString(a.message, b.message))))))

\* One turn of the loop over jelly.nodes, once the path is resolved: the
\* diagnostics pushed and the FuncId the node is mapped to (NoFunc: none).
MapNodeResolved(n, functionIndex, resolved) ==
  IF resolved.kind # "ok"
    THEN [diagnostics |-> << NodeDiagnostic("error", n, "", resolved.message) >>,
          funcId |-> NoFunc]
  ELSE [diagnostics |->
          (IF resolved.warn # ""
             THEN << NodeDiagnostic("warn", n, resolved.filePath, resolved.warn) >>
             ELSE << >>) \o
          (IF FunctionBySpan(functionIndex, resolved.filePath, n.startOffset, n.endOffset)
                = NoFunc
             THEN << NodeDiagnostic("error", n, resolved.filePath,
                                    "No indexed function matches Jelly span in resolved file") >>
             ELSE << >>),
        funcId |-> FunctionBySpan(functionIndex, resolved.filePath, n.startOffset,
                                  n.endOffset)]

MapNode(n, functionIndex, mode) ==
  MapNodeResolved(n, functionIndex,
                  resolveFilePath({ f.filePath : f \in functionIndex }, n.filePath, mode))

RECURSIVE Flatten(_)
\* The concatenation of a sequence of sequences.
Flatten(seqs) == IF seqs = << >> THEN << >> ELSE Head(seqs) \o Flatten(Tail(seqs))

\* What a mapping call ends in: the error it throws in strict mode, made of
\* a count and one line per error diagnostic, or the mapping and the
\* diagnostics it returns.
MappingThrew(errors) ==
  [threw |-> TRUE, errorCount |-> Len(errors), lines |-> errors, mapping |-> << >>,
   diagnostics |-> << >>]
MappingReturned(mapping, diagnostics) ==
  [threw |-> FALSE, errorCount |-> 0, lines |-> << >>, mapping |-> mapping,
   diagnostics |-> diagnostics]

\* A variant whose error names the first failure only.
FinishMappingFirstErrorOnly(mode, mapping, deduped) ==
  IF mode = "strict" /\ SelectSeq(deduped, LAMBDA d : d.level = "error") # << >>
    THEN MappingThrew(<< Head(SelectSeq(deduped, LAMBDA d : d.level = "error")) >>)
  ELSE MappingReturned(mapping, deduped)

\* The end of a mapping call, from the de-duplicated and sorted diagnostics.
FinishMapping(mode, mapping, deduped) ==
  IF mode = "strict" /\ SelectSeq(deduped, LAMBDA d : d.level = "error") # << >>
    THEN MappingThrew(SelectSeq(deduped, LAMBDA d : d.level = "error"))
  ELSE MappingReturned(mapping, deduped)

\* The mapping call given what each turn of the loop produced.
MapNodesFrom(jelly, mode, perNode) ==
  FinishMapping(
    mode,
    [id \in { jelly.nodes[i].id : i \in { k \in 1..Len(jelly.nodes) :
                                             perNode[k].funcId # NoFunc } } |->
       perNode[CHOOSE k \in 1..Len(jelly.nodes) : jelly.nodes[k].id = id].funcId],
    stableSortBy(DedupeSeq(Flatten([i \in 1..Len(jelly.nodes) |-> perNode[i].diagnostics])),
                 cmpNodeDiagnostic))

mapJellyFunctionNodesToFuncIds(jelly, functionIndex, mode) ==
  MapNodesFrom(jelly, mode,
               [i \in 1..Len(jelly.nodes) |-> MapNode(jelly.nodes[i], functionIndex, mode)])

\* ------------------------------------------------------------------------
\* jelly_callsite_mapping.ts: mapJellyCallEdgesToCallsiteIds
\* ------------------------------------------------------------------------

JellyCallEdge(callerId, calleeId, filePath, startOffset, endOffset, kind) ==
  [callerId |-> callerId, calleeId |-> calleeId,
   callsite |-> [filePath |-> filePath, startOffset |-> startOffset, endOffset |-> endOffset],
   kind |-> kind]

\* An indexed callsite: its id, the function it lies in, and its span.
IndexedCallsite(funcId, statementIndex, startOffset, endOffset) ==
  [id |-> createStmtId(funcId, statementIndex), funcId |-> funcId,
   filePath |-> funcId.filePath, startOffset |-> startOffset, endOffset |-> endOffset]

NoCallsite == IndexedCallsite(NoFunc, -1, 0, 0)

\* callsiteIndex.getBySpan; the callsite index holds the indexed functions
\* (perFunction) and their callsites.
CallsiteBySpan(callsiteIndex, filePath, startOffset, endOffset) ==
  IF \E cs \in callsiteIndex.callsites :
       cs.filePath = filePath /\ cs.startOffset = startOffset /\ cs.endOffset = endOffset
  THEN CHOOSE cs \in callsiteIndex.callsites :
         cs.filePath = filePath /\ cs.startOffset = startOffset /\ cs.endOffset = endOffset
  ELSE NoCallsite

EdgeDiagnostic(level, i, e, resolvedFilePath, message) ==
  [level |-> level, edgeIndex |-> i, callerId |-> e.callerId, calleeId |-> e.calleeId,
   kind |-> e.kind, jellyFilePath |-> e.callsite.filePath,
   resolvedFilePath |-> resolvedFilePath, startOffset |-> e.callsite.startOffset,
   endOffset |-> e.callsite.endOffset, message |-> message]

cmpEdgeDiagnostic(a, b) ==
  OrElse(cmpString(a.jellyFilePath, b.jellyFilePath),
  OrElse(cmpNumber(a.startOffset, b.startOffset),
  OrElse(cmpNumber(a.endOffset, b.endOffset),
  OrElse(cmpNumber(a.edgeIndex, b.edgeIndex),
  OrElse(cmpString(a.callerId, b.callerId),
  OrElse(cmpString(a.calleeId, b.calleeId),
  OrElse(cmpString(a.kind, b.kind),
  OrElse(cmpString(a.level, b.level), cmpString(a.message, b.message)))))))))

\* The end of one turn of the loop over jelly.edges, once the callsite cs is
\* looked up: warned holds the warning pushed before.
MapEdgeToCallsite(i, e, nodeIdToFuncId, resolved, warned, cs) ==
  IF cs = NoCallsite
    THEN [diagnostics |->
            warned \o << EdgeDiagnostic("error", i, e, resolved.filePath,
                           "No indexed callsite matches Jelly span in resolved file") >>,
          callsiteId |-> NoStmt]
  ELSE IF e.callerId \in DOMAIN nodeIdToFuncId /\ cs.funcId # nodeIdToFuncId[e.callerId]
    THEN [diagnostics |->
            warned \o << EdgeDiagnostic("error", i, e, resolved.filePath,
                           "Mapped callsite belongs to a different function than edge.callerId") >>,
          callsiteId |-> NoStmt]
  ELSE [diagnostics |-> warned, callsiteId |-> cs.id]

\* One turn of the loop for an edge of kind "call", once the path is resolved.
MapEdgeResolved(i, e, callsiteIndex, nodeIdToFuncId, resolved) ==
  IF resolved.kind # "ok"
    THEN [diagnostics |-> << EdgeDiagnostic("error", i, e, "", resolved.message) >>,
          callsiteId |-> NoStmt]
  ELSE MapEdgeToCallsite(
         i, e, nodeIdToFuncId, resolved,
         IF resolved.warn # ""
           THEN << EdgeDiagnostic("warn", i, e, resolved.filePath, resolved.warn) >>
           ELSE << >>,
         CallsiteBySpan(callsiteIndex, resolved.filePath, e.callsite.startOffset,
                        e.callsite.endOffset))

\* One turn of the loop over jelly.edges; i is the index of the edge, from 0.
\* The diagnostics pushed and the callsite id (NoStmt: null).
MapEdge(i, e, callsiteIndex, mode, nodeIdToFuncId) ==
  IF e.kind # "call"
    THEN [diagnostics |->
            << EdgeDiagnostic("error", i, e, "", "Unsupported Jelly call edge kind") >>,
          callsiteId |-> NoStmt]
  ELSE MapEdgeResolved(
         i, e, callsiteIndex, nodeIdToFuncId,
         resolveFilePath({ f.filePath : f \in callsiteIndex.perFunction },
                         e.callsite.filePath, mode))

\* The mapping call given what each turn of the loop produced.
MapEdgesFrom(jelly, mode, perEdge) ==
  FinishMapping(
    mode,
    [i \in 1..Len(jelly.edges) |-> perEdge[i].callsiteId],
    stableSortBy(DedupeSeq(Flatten([i \in 1..Len(jelly.edges) |-> perEdge[i].diagnostics])),
                 cmpEdgeDiagnostic))

\* The result's mapping is callsiteIdByEdgeIndex, aligned with jelly.edges.
mapJellyCallEdgesToCallsiteIds(jelly, callsiteIndex, mode, nodeIdToFuncId) ==
  MapEdgesFrom(jelly, mode,
               [i \in 1..Len(jelly.edges) |->
                  MapEdge(i - 1, jelly.edges[i], callsiteIndex, mode, nodeIdToFuncId)])

\* cmdAnalyze: the input of normalizeMappedCallGraph, from the two mappings.
MappedGraphInput(jelly, nodeIdToFuncId, callsiteIdByEdgeIndex) ==
  [nodes |->
     DedupeSeq([k \in 1..Len(SelectSeq(jelly.nodes, LAMBDA n : n.id \in DOMAIN nodeIdToFuncId)) |->
                  nodeIdToFuncId[SelectSeq(jelly.nodes,
                                           LAMBDA n : n.id \in DOMAIN nodeIdToFuncId)[k].id]]),
   edges |->
     Flatten([i \in 1..Len(jelly.edges) |->
                IF /\ callsiteIdByEdgeIndex[i] # NoStmt
                   /\ jelly.edges[i].callerId \in DOMAIN nodeIdToFuncId
                   /\ jelly.edges[i].calleeId \in DOMAIN nodeIdToFuncId
                  THEN << MappedCallEdge(nodeIdToFuncId[jelly.edges[i].callerId],
                                         nodeIdToFuncId[jelly.edges[i].calleeId],
                                         callsiteIdByEdgeIndex[i]) >>
                  ELSE << >>])]

\* ------------------------------------------------------------------------
\* Specification of the mapping of a Jelly call graph
\* ------------------------------------------------------------------------

MaxJellyEdges == 2

\* jelly_callgraph.ts: the orders normalizeJellyCallGraph sorts by.
cmpJellyFunctionNode(a, b) ==
  OrElse(cmpString(a.filePath, b.filePath),
  OrElse(cmpNumber(a.startOffset, b.startOffset),
  OrElse(cmpNumber(a.endOffset, b.endOffset), cmpString(a.id, b.id))))

cmpJellyCallEdge(a, b) ==
  OrElse(cmpString(a.callerId, b.callerId),
  OrElse(cmpString(a.calleeId, b.calleeId),
  OrElse(cmpString(a.callsite.filePath, b.callsite.filePath),
  OrElse(cmpNumber(a.callsite.startOffset, b.callsite.startOffset),
  OrElse(cmpNumber(a.callsite.endOffset, b.callsite.endOffset),
         cmpString(a.kind, b.kind))))))

\* The indexed functions of the analyzed project, and their callsites.
MappingFuncA == createFuncId("src/a.ts", 0, 10)
MappingFuncB == createFuncId("src/b.ts", 0, 10)
MappingFuncUpperA == createFuncId("src/A.ts", 0, 10)

FunctionIndexes ==
  { {MappingFuncA, MappingFuncB}, {MappingFuncA, MappingFuncB, MappingFuncUpperA} }

CallsiteIndexOf(functionIndex) ==
  [perFunction |-> functionIndex,
   callsites |-> { IndexedCallsite(f, 0, 3, 4) : f \in functionIndex }
                   \cup { IndexedCallsite(MappingFuncA, 1, 5, 6) }]

\* The Jelly graphs: two nodes and at most MaxJellyEdges edges, as
\* normalizeJellyCallGraph leaves them (sorted, the edges de-duplicated).
JellyNodeChoices ==
  { << a, b >> :
      a \in { JellyFunctionNode("n1", fp, 0, e) :
                fp \in {"src/a.ts", "Src/a.ts", "a.ts", "lib/a.ts"}, e \in {10} }
            \cup { JellyFunctionNode("n1", "src/a.ts", 0, 9) },
      b \in { JellyFunctionNode("n2", fp, 0, 10) : fp \in {"src/b.ts", "lib/c.ts"} } }

JellyEndpoints == { << "n1", "n2" >>, << "n2", "n1" >> }

JellyEdgeUniverse ==
  { JellyCallEdge(ids[1], ids[2], fp, span[1], span[2], "call") :
      ids \in JellyEndpoints,
      fp \in {"src/a.ts", "src/b.ts", "Src/a.ts"},
      span \in { << 3, 4 >>, << 7, 8 >> } }
  \cup { JellyCallEdge(ids[1], ids[2], "src/a.ts", 3, 4, "construct") : ids \in JellyEndpoints }

JellyGraphs ==
  { [nodes |-> stableSortBy(ns, cmpJellyFunctionNode),
     edges |-> stableSortBy(SetToSeq(es), cmpJellyCallEdge)] :
      ns \in JellyNodeChoices,
      es \in { x \in SUBSET JellyEdgeUniverse : Cardinality(x) <= MaxJellyEdges } }

NoMappingResult == MappingReturned(<< >>, << >>)

MappingOutput(nodes, edges, graph) == [nodes |-> nodes, edges |-> edges, graph |-> graph]

InitMapping ==
  /\ IdleRun
  /\ IdleStore
  /\ procs = NoProcs
  /\ \E jelly \in JellyGraphs, functionIndex \in FunctionIndexes,
        mode \in {"strict", "lenient"} :
       call = LibCall("jelly",
                      [jelly |-> jelly, functionIndex |-> functionIndex,
                       callsiteIndex |-> CallsiteIndexOf(functionIndex), mode |-> mode],
                      MappingOutput(NoMappingResult, NoMappingResult, EmptyGraph))

MapNodes ==
  /\ call.op = "jelly"
  /\ call' = LibCall("nodes", call.input,
                     MappingOutput(mapJellyFunctionNodesToFuncIds(
                                     call.input.jelly, call.input.functionIndex,
                                     call.input.mode),
                                   NoMappingResult, EmptyGraph))
  /\ UNCHANGED << fixVars, ticks, cacheVars, cli, procs >>

MapEdges ==
  /\ call.op = "nodes"
  /\ ~call.output.nodes.threw
  /\ call' = LibCall("edges", call.input,
                     MappingOutput(call.output.nodes,
                                   mapJellyCallEdgesToCallsiteIds(
                                     call.input.jelly, call.input.callsiteIndex,
                                     call.input.mode, call.output.nodes.mapping),
                                   EmptyGraph))
  /\ UNCHANGED << fixVars, ticks, cacheVars, cli, procs >>

\* cmdAnalyze maps in strict mode and builds the mapped call graph.
BuildMappedGraph ==
  /\ call.op = "edges"
  /\ call.input.mode = "strict"
  /\ ~call.output.edges.threw
  /\ call' = LibCall("graph", call.input,
                     MappingOutput(call.output.nodes, call.output.edges,
                                   normalizeMappedCallGraph(
                                     MappedGraphInput(call.input.jelly,
                                                      call.output.nodes.mapping,
                                                      call.output.edges.mapping))))
  /\ UNCHANGED << fixVars, ticks, cacheVars, cli, procs >>

\* cmdAnalyze: a mapping that throws ends the analysis with exit code 1.
MappingFailed ==
  /\ call.op \in {"nodes", "edges"}
  /\ call.input.mode = "strict"
  /\ call.output.nodes.threw \/ call.output.edges.threw
  /\ call' = LibCall("failed", call.input, call.output)
  /\ UNCHANGED << fixVars, ticks, cacheVars, cli, procs >>

NextMapping == MapNodes \/ MapEdges \/ BuildMappedGraph \/ MappingFailed

SpecMapping == InitMapping /\ [][NextMapping]_vars

\* TRUE iff the node names an indexed function in an analyzed file.
NodeMapsStrictly(n, functionIndex) ==
  \E f \in functionIndex :
    f.filePath = n.filePath /\ f.startOffset = n.startOffset /\ f.endOffset = n.endOffset

\* TRUE iff the edge is a call whose span is an indexed callsite of the
\* function its caller is mapped to.
EdgeMapsStrictly(e, callsiteIndex, nodeIdToFuncId) ==
  /\ e.kind = "call"
  /\ \E cs \in callsiteIndex.callsites :
       /\ cs.filePath = e.callsite.filePath
       /\ cs.startOffset = e.callsite.startOffset
       /\ cs.endOffset = e.callsite.endOffset
       /\ e.callerId \in DOMAIN nodeIdToFuncId => cs.funcId = nodeIdToFuncId[e.callerId]

\* The outcome of a strict mapping of count items of which those in failing
\* fail: all or nothing, every failure listed once.
StrictOutcome(result, count, failing, LineNames(_, _)) ==
  /\ result.threw <=> failing # {}
  /\ result.threw =>
       /\ result.mapping = << >>
       /\ result.errorCount = Cardinality(failing)
       /\ Len(result.lines) = Cardinality(failing)
       /\ \A i \in failing :
            Cardinality({ k \in 1..Len(result.lines) : LineNames(result.lines[k], i) }) = 1
  /\ ~result.threw =>
       /\ \A k \in 1..Len(result.diagnostics) : result.diagnostics[k].level # "error"
       /\ Cardinality(DOMAIN result.mapping) = count

\* C24: in strict mode a mapping call returns a mapping only when nothing
\* failed to map, and the mapping then covers every node or edge; when some
\* nodes or edges fail, it throws one error which lists each failure once,
\* and it returns no mapping at all.
C24_StrictAllOrNothing ==
  (call.op \in {"nodes", "edges"} /\ call.input.mode = "strict") =>
    /\ StrictOutcome(call.output.nodes, Len(call.input.jelly.nodes),
                     { i \in 1..Len(call.input.jelly.nodes) :
                         ~NodeMapsStrictly(call.input.jelly.nodes[i],
                                           call.input.functionIndex) },
                     LAMBDA d, i : d.nodeId = call.input.jelly.nodes[i].id)
    /\ call.op = "edges" =>
         StrictOutcome(call.output.edges, Len(call.input.jelly.edges),
                       { i \in 1..Len(call.input.jelly.edges) :
                           ~EdgeMapsStrictly(call.input.jelly.edges[i],
                                             call.input.callsiteIndex,
                                             call.output.nodes.mapping) },
                       LAMBDA d, i : d.edgeIndex = i - 1)

\* A strict edge mapping that throws one error listing two failing edges.
C24_Witness ==
  /\ call.op = "edges"
  /\ call.input.mode = "strict"
  /\ call.output.edges.threw
  /\ call.output.edges.errorCount = 2
  /\ call.output.edges.mapping = << >>

\* C25: an edge of kind construct gets no callsite and does not make the
\* mapping fail: when every edge of kind call maps, the mapping returns, with
\* no callsite for the construct edges.
C25_ConstructEdgeIgnored ==
  (/\ call.op = "edges"
   /\ \A i \in 1..Len(call.input.jelly.edges) :
        call.input.jelly.edges[i].kind = "call" =>
          EdgeMapsStrictly(call.input.jelly.edges[i], call.input.callsiteIndex,
                           call.output.nodes.mapping)) =>
    /\ ~call.output.edges.threw
    /\ \A i \in 1..Len(call.input.jelly.edges) :
         call.input.jelly.edges[i].kind = "construct" =>
           call.output.edges.mapping[i] = NoStmt

\* ------------------------------------------------------------------------
\* flow_fact.ts, flow_fact_jsonl.ts: the flow fact file from a list of facts
\* ------------------------------------------------------------------------

\* The key strings, as the tuples of their parts.
flowNodeKey(n) ==
  CASE n.kind = "var" -> << "v", n.funcId, n.id >>
    [] n.kind = "call_arg" -> << "a", n.callsiteId, n.index >>
    [] n.kind = "heap_read" -> << "hr", n.heapId >>
    [] n.kind = "heap_write" -> << "hw", n.heapId >>
    [] OTHER -> << "r", n.funcId >>

flowFactKey(f) == << flowNodeKey(f.from), "->", flowNodeKey(f.to) >>

\* canonicalJsonStringify of a normalized fact.
serializeNormalizedFlowFact(fact) ==
  [schemaVersion |-> fact.schemaVersion,
   from |-> JsonOfFlowNode(fact.from), to |-> JsonOfFlowNode(fact.to)]

\* The values of the Map filled by uniqueByKey.set in the order of value: a
\* key stays where it was first set and holds the fact set last.
UniqueByKey(facts, keys) ==
  [k \in 1..Len(keys) |->
     facts[CHOOSE i \in 1..Len(facts) :
             /\ flowFactKey(facts[i]) = keys[k]
             /\ \A j \in (i + 1)..Len(facts) : flowFactKey(facts[j]) # keys[k]]]

\* A variant that keeps every fact it is given.
normalizeFlowFactsKeepingRepeats(value) == stableSort(value, "cmpFlowFact")

normalizeFlowFacts(value) ==
  stableSort(UniqueByKey(value, DedupeSeq([i \in 1..Len(value) |-> flowFactKey(value[i])])),
             "cmpFlowFact")

\* The text of the file as its lines, each ended by a newline; no line is
\* the empty text.
JsonlOfFacts(facts) ==
  [i \in 1..Len(facts) |-> [json |-> serializeNormalizedFlowFact(facts[i]), newline |-> TRUE]]

\* ------------------------------------------------------------------------
\* Specification of serializeFlowFactsJsonl on lists of facts
\* ------------------------------------------------------------------------

MaxFacts == 3

FactUniverse ==
  { FlowFact(VarFlowNode(MappingFuncA, "p0"), ReturnFlowNode(MappingFuncA)),
    FlowFact(VarFlowNode(MappingFuncA, "p0"),
             HeapWriteFlowNode(createHeapId(createStmtId(MappingFuncA, 0), "x"))),
    FlowFact(VarFlowNode(MappingFuncA, "p0"),
             CallArgFlowNode(createStmtId(MappingFuncA, 1), 0)),
    FlowFact(VarFlowNode(MappingFuncA, "v0"), ReturnFlowNode(MappingFuncA)),
    FlowFact(VarFlowNode(MappingFuncB, "p0"), ReturnFlowNode(MappingFuncB)),
    FlowFact(HeapReadFlowNode(createHeapId(createStmtId(MappingFuncA, 0), "x")),
             ReturnFlowNode(MappingFuncA)) }

\* The lists of at most n facts over the set facts.
FactLists(facts, n) == UNION { [1..k -> facts] : k \in 0..n }

InitFacts ==
  /\ IdleRun
  /\ IdleStore
  /\ procs = NoProcs
  /\ \E value \in FactLists(FactUniverse, MaxFacts) :
       call = LibCall("facts", [value |-> value], << >>)

SerializeFacts ==
  /\ call.op = "facts"
  /\ call' = LibCall("serializeFlowFactsJsonl", call.input,
                     [facts |-> normalizeFlowFacts(call.input.value),
                      text |-> JsonlOfFacts(normalizeFlowFacts(call.input.value))])
  /\ UNCHANGED << fixVars, ticks, cacheVars, cli, procs >>

NextFacts == SerializeFacts

SpecFacts == InitFacts /\ [][NextFacts]_vars

\* C26: the text has one line per distinct fact of the input, the lines are
\* strictly increasing under cmpFlowFact, every list holding the same set of
\* facts gives the same text, and no fact gives the empty text.
C26_CanonicalJsonl ==
  call.op = "serializeFlowFactsJsonl" =>
    /\ Len(call.output.text) = Cardinality(SeqToSet(call.input.value))
    /\ \A f \in SeqToSet(call.input.value) :
         Cardinality({ k \in 1..Len(call.output.text) :
                         call.output.text[k].json = serializeNormalizedFlowFact(f) }) = 1
    /\ \A k \in 1..Len(call.output.text) :
         /\ call.output.text[k].json = serializeNormalizedFlowFact(call.output.facts[k])
         /\ k > 1 => cmpFlowFact(call.output.facts[k - 1], call.output.facts[k]) < 0
    /\ \A other \in FactLists(SeqToSet(call.input.value), MaxFacts) :
         SeqToSet(other) = SeqToSet(call.input.value) =>
           JsonlOfFacts(normalizeFlowFacts(other)) = call.output.text
    /\ call.input.value = << >> => call.output.text = << >>

\* A list that repeats a fact and is not in order gave a text of two lines.
C26_Witness ==
  /\ call.op = "serializeFlowFactsJsonl"
  /\ Len(call.input.value) = 3
  /\ Len(call.output.text) = 2
  /\ cmpFlowFact(call.input.value[1], call.input.value[2]) > 0

\* ------------------------------------------------------------------------
\* ids.ts: identifiers as texts
\* ------------------------------------------------------------------------

\* The text of an identifier is the sequence of the parts that split(":")
\* gives; no part holds a colon. An encoded component is a sequence of units:
\* a character written as it is, or a percent escape; "%" is a percent sign
\* that no two hexadecimal digits of a well-formed escape follow. A number
\* text is a sequence of characters.

IsMalformedUnit(u) == u = "%"

decodeUnit(u) ==
  CASE u \in {"%2F", "%2f"} -> "/"
    [] u \in {"%5C", "%5c"} -> "\\"
    [] u = "%78" -> "x"
    [] OTHER -> u

encodeChar(c) ==
  CASE c = "/" -> "%2F"
    [] c = "\\" -> "%5C"
    [] OTHER -> c

\* decodeURIComponent: throws on a malformed escape.
decodeURIComponent(encoded) ==
  IF \E i \in 1..Len(encoded) : IsMalformedUnit(encoded[i])
    THEN [ok |-> FALSE, value |-> << >>]
    ELSE [ok |-> TRUE, value |-> [i \in 1..Len(encoded) |-> decodeUnit(encoded[i])]]

encodeURIComponent(decoded) == [i \in 1..Len(decoded) |-> encodeChar(decoded[i])]

decodeCanonicalUriComponent(encoded) ==
  IF ~decodeURIComponent(encoded).ok THEN [ok |-> FALSE, value |-> << >>]
  ELSE IF encodeURIComponent(decodeURIComponent(encoded).value) # encoded
    THEN [ok |-> FALSE, value |-> << >>]
  ELSE decodeURIComponent(encoded)

DigitValue(c) == IF c = "0" THEN 0 ELSE 1

RECURSIVE NumberOfDigits(_)
\* Number(text) of a text of digits.
NumberOfDigits(text) ==
  IF text = << >> THEN 0
  ELSE 10 * NumberOfDigits(SubSeq(text, 1, Len(text) - 1)) + DigitValue(text[Len(text)])

RECURSIVE DigitsOfNumber(_)
\* The decimal text a template literal gives a non-negative integer.
DigitsOfNumber(n) ==
  IF n < 10 THEN << IF n = 0 THEN "0" ELSE "1" >>
  ELSE DigitsOfNumber(n \div 10) \o << IF n % 10 = 0 THEN "0" ELSE "1" >>

\* The regular expression ^(0|[1-9][0-9]*)$ on the texts of the model.
parseCanonicalNonNegativeInt(text) ==
  IF /\ text # << >>
     /\ \A i \in 1..Len(text) : text[i] \in {"0", "1"}
     /\ Len(text) > 1 => text[1] # "0"
    THEN [ok |-> TRUE, value |-> NumberOfDigits(text)]
    ELSE [ok |-> FALSE, value |-> 0]

FuncIdParts(ok, filePath, startOffset, endOffset) ==
  [ok |-> ok, filePath |-> filePath, startOffset |-> startOffset, endOffset |-> endOffset]

InvalidFuncId == FuncIdParts(FALSE, << >>, 0, 0)

\* parseFuncIdParts once the three components are parsed.
FuncIdPartsOf(filePath, startOffset, endOffset) ==
  IF ~filePath.ok \/ filePath.value = << >> THEN InvalidFuncId
  ELSE IF ~startOffset.ok \/ ~endOffset.ok THEN InvalidFuncId
  ELSE IF endOffset.value < startOffset.value THEN InvalidFuncId
  ELSE FuncIdParts(TRUE, filePath.value, startOffset.value, endOffset.value)

parseFuncIdParts(text) ==
  IF Len(text) # 4 \/ text[1] # "f" THEN InvalidFuncId
  ELSE FuncIdPartsOf(decodeCanonicalUriComponent(text[2]),
                     parseCanonicalNonNegativeInt(text[3]),
                     parseCanonicalNonNegativeInt(text[4]))

\* The text createFuncId builds from the parts.
FuncIdText(filePath, startOffset, endOffset) ==
  << "f", encodeURIComponent(filePath), DigitsOfNumber(startOffset),
     DigitsOfNumber(endOffset) >>

\* parseFuncId once the parts are parsed: the text must be the canonical one.
ParsedFuncId(text, p) ==
  IF ~p.ok THEN [ok |-> FALSE, parts |-> InvalidFuncId]
  ELSE IF FuncIdText(p.filePath, p.startOffset, p.endOffset) # text
    THEN [ok |-> FALSE, parts |-> InvalidFuncId]
  ELSE [ok |-> TRUE, parts |-> p]

parseFuncId(text) == ParsedFuncId(text, parseFuncIdParts(text))

\* ------------------------------------------------------------------------
\* Specification of parseFuncId on texts
\* ------------------------------------------------------------------------

MaxUnits == 2

EncodedUnits == {"x", "/", "\\", "%2F", "%2f", "%5C", "%78", "%"}

NumberTexts ==
  { << "0" >>, << "1" >>, << "1", "0" >>, << "0", "1" >>, << "-", "1" >>, << >> }

IdTexts ==
  { shape[1] \o << path >> \o << start >> \o shape[2] :
      shape \in { << << "f" >>, << << "0" >> >> >>, << << "f" >>, << << "1", "0" >> >> >>,
                  << << "f" >>, << << "0", "1" >> >> >>, << << "s" >>, << << "1" >> >> >>,
                  << << "f" >>, << >> >>, << << "f" >>, << << "1" >>, << "0" >> >> >> },
      path \in UNION { [1..k -> EncodedUnits] : k \in 0..MaxUnits },
      start \in NumberTexts }

InitIds ==
  /\ IdleRun
  /\ IdleStore
  /\ procs = NoProcs
  /\ \E text \in IdTexts : call = LibCall("text", [text |-> text], << >>)

ParseId ==
  /\ call.op = "text"
  /\ call' = LibCall("parseFuncId", call.input, parseFuncId(call.input.text))
  /\ UNCHANGED << fixVars, ticks, cacheVars, cli, procs >>

NextIds == ParseId

SpecIds == InitIds /\ [][NextIds]_vars

\* TRUE iff the component holds a unit that is not the canonical encoding of
\* the character it stands for, or a malformed escape.
NonCanonicalEncoding(encoded) ==
  \E i \in 1..Len(encoded) : encoded[i] \in {"/", "\\", "%2f", "%5c", "%78", "%"}

LeadingZero(text) == Len(text) > 1 /\ text[1] = "0"

\* TRUE iff the file path of the component is written with a backslash as
\* its separator.
AlternativeSeparator(encoded) ==
  \E i \in 1..Len(encoded) : encoded[i] \in {"\\", "%5C", "%5c"}

\* C27: a text with a non-canonical percent-encoding, a number with leading
\* zeros or a file path with a backslash separator does not parse, and a
\* text that parses is the canonical text of its parsed parts.
C27_OnlyCanonicalParses ==
  (call.op = "parseFuncId" /\ Len(call.input.text) >= 2) =>
    /\ NonCanonicalEncoding(call.input.text[2]) => ~call.output.ok
    /\ (\E i \in 3..Len(call.input.text) : LeadingZero(call.input.text[i])) => ~call.output.ok
    /\ AlternativeSeparator(call.input.text[2]) => ~call.output.ok
    /\ call.output.ok =>
         call.input.text = FuncIdText(call.output.parts.filePath,
                                      call.output.parts.startOffset,
                                      call.output.parts.endOffset)

\* ------------------------------------------------------------------------
\* Specification of the lifting of a callee's heap effects at one callsite
\* ------------------------------------------------------------------------

\* The longest statement list after the callsite.
MaxAfter == 1

\* The caller f(p0, p1) with the locals v0 and v1, and its callee.
LiftCaller == FuncUniverse[1]
LiftCallee == FuncUniverse[3]

\*   function g(val, obj) { const o = {}; o.x = val; obj.y = val; }
LocalBucketIr(g) ==
  FuncIR(g, << "p0", "p1" >>, << "v0" >>,
         << IrStmt("alloc", S(g, 0), "v0", << >>, NoVar, NoKey),
            IrStmt("member_write", S(g, 1), NoVar, << RVar("p0") >>, "v0", NamedKey("x")),
            IrStmt("member_write", S(g, 2), NoVar, << RVar("p0") >>, "p1", NamedKey("y")) >>)

LiftCalleeIrs ==
  { TemplateIr(t, LiftCallee) : t \in {"setX", "getX", "copy"} }
  \cup { LocalBucketIr(LiftCallee) }

\* The statements before the callsite, the call, and the statements after
\* it, as the statement at index i.
StmtsBefore(i) ==
  { IrStmt("assign", S(LiftCaller, i), "v0", << RVar("p0") >>, NoVar, NoKey),
    IrStmt("assign", S(LiftCaller, i), "v0", << RUnknown >>, NoVar, NoKey),
    IrStmt("alloc", S(LiftCaller, i), "v0", << >>, NoVar, NoKey) }

CallShapes(i) ==
  { IrStmt("call", S(LiftCaller, i), "v1", << RVar("v0"), RVar("p1") >>, NoVar, NoKey),
    IrStmt("call", S(LiftCaller, i), "v1", << RVar("p0"), RVar("v0") >>, NoVar, NoKey),
    IrStmt("call", S(LiftCaller, i), "v0", << RVar("v0"), RVar("p1") >>, NoVar, NoKey),
    IrStmt("call", S(LiftCaller, i), NoVar, << RVar("v0"), RVar("p1") >>, NoVar, NoKey) }

StmtsAfter(i) ==
  { IrStmt("alloc", S(LiftCaller, i), "v0", << >>, NoVar, NoKey),
    IrStmt("assign", S(LiftCaller, i), "v0", << RVar("p1") >>, NoVar, NoKey),
    IrStmt("return", S(LiftCaller, i), NoVar, << RVar("v1") >>, NoVar, NoKey) }

\* The bodies with b statements before the call and a statements after it.
LiftBodies(b, a) ==
  { q \in [1..(b + 1 + a) -> UNION { StmtsBefore(i) \cup CallShapes(i) \cup StmtsAfter(i) :
                                        i \in 0..(b + a) }] :
      /\ \A i \in 1..b : q[i] \in StmtsBefore(i - 1)
      /\ q[b + 1] \in CallShapes(b)
      /\ \A i \in (b + 2)..(b + 1 + a) : q[i] \in StmtsAfter(i - 1) }

LiftCallerIrs ==
  { FuncIR(LiftCaller, << "p0", "p1" >>, << "v0", "v1" >>, stmts) :
      stmts \in UNION { LiftBodies(b, a) : b \in 0..1, a \in 0..MaxAfter } }

LiftOutput(calleeState, callerState, lifted) ==
  [calleeState |-> calleeState, callerState |-> callerState, lifted |-> lifted]

InitLift ==
  /\ IdleRun
  /\ IdleStore
  /\ procs = NoProcs
  /\ \E caller \in LiftCallerIrs, callee \in LiftCalleeIrs :
       call = LibCall("program", [caller |-> caller, callee |-> callee],
                      LiftOutput(NoState, NoState, {}))

\* FuncInputV2 of a function whose summary is its baseline summary.
LiftFunc(ir) == FuncInputV2(ir.funcId, ir, BaselineSummary(ir))

\* callees of the caller: its one callsite calls the callee.
LiftCallees(caller) == [cs \in { CallStmts(caller)[1].stmtId } |-> {LiftCallee}]

\* The callee has no callsite: its state is computed from its own graph.
ComputeCallee ==
  /\ call.op = "program"
  /\ call' = LibCall("callee", call.input,
                     LiftOutput(computeFuncStateV2(LiftFunc(call.input.callee), << >>, << >>),
                                NoState, {}))
  /\ UNCHANGED << fixVars, ticks, cacheVars, cli, procs >>

\* The caller's state, from the edges lifted at its callsite.
ComputeCaller ==
  /\ call.op = "callee"
  /\ call' = LibCall("caller", call.input,
                     LiftOutput(call.output.calleeState,
                                computeFuncStateV2(
                                  LiftFunc(call.input.caller), LiftCallees(call.input.caller),
                                  [g \in {LiftCallee} |-> call.output.calleeState]),
                                LiftedEdges(
                                  LiftFunc(call.input.caller),
                                  CallsiteInfos(call.input.caller)[1], {LiftCallee},
                                  [g \in {LiftCallee} |-> call.output.calleeState])))
  /\ UNCHANGED << fixVars, ticks, cacheVars, cli, procs >>

NextLift == ComputeCallee \/ ComputeCaller

SpecLift == InitLift /\ [][NextLift]_vars

\* The position of the call in the caller's statements.
CallPosition(ir) == CHOOSE k \in 1..Len(ir.stmts) : ir.stmts[k].kind = "call"

\* The caller's input with, as its anchors, those the cheap pass holds when
\* it reaches the callsite: the anchors a member access at the callsite is
\* bucketed under.
FuncAtCallsite(func) ==
  [func EXCEPT !.heapAnchorByVar = CheapPassAfter(func.ir, CallPosition(func.ir) - 1).anchors]

\* C28: the edges lifted at the callsite are those that the anchors the
\* argument variables hold at the callsite give, whatever the statements
\* after the callsite assign.
C28_LiftUsesAnchorAtCallsite ==
  call.op = "caller" =>
    call.output.lifted =
      LiftedEdges(FuncAtCallsite(LiftFunc(call.input.caller)),
                  CallsiteInfos(call.input.caller)[1], {LiftCallee},
                  [g \in {LiftCallee} |-> call.output.calleeState])

\* TRUE iff the bucket is anchored at the synthetic anchor of a parameter of
\* the function of ir.
ParamAnchored(h, ir) ==
  \E i \in 0..(Len(ir.params) - 1) :
    h.site = syntheticHeapAnchorId(ir.funcId, createParamVarId(i))

ParamIndexOf(h, ir) ==
  CHOOSE i \in 0..(Len(ir.params) - 1) :
    h.site = syntheticHeapAnchorId(ir.funcId, createParamVarId(i))

\* The heap effects of a function are exactly those of its facts whose
\* buckets are anchored at synthetic anchors of its own parameters.
EffectsFromOwnParams(state, ir) ==
  /\ state.paramHeapWriteEffects =
       { [valueParamIndex |-> varIdToParts(f.from.id).index,
          objectParamIndex |-> ParamIndexOf(f.to.heapId, ir),
          propertyName |-> f.to.heapId.propertyName] :
           f \in { x \in state.facts :
                     /\ x.from.kind = "var" /\ x.to.kind = "heap_write"
                     /\ x.from.id \in SeqToSet(ir.params)
                     /\ ParamAnchored(x.to.heapId, ir) } }
  /\ state.heapReadReturnEffects =
       { [objectParamIndex |-> ParamIndexOf(f.from.heapId, ir),
          propertyName |-> f.from.heapId.propertyName] :
           f \in { x \in state.facts :
                     /\ x.from.kind = "heap_read" /\ x.to.kind = "return"
                     /\ ParamAnchored(x.from.heapId, ir) } }
  /\ state.heapReadHeapWriteEffects =
       { [readObjectParamIndex |-> ParamIndexOf(f.from.heapId, ir),
          readPropertyName |-> f.from.heapId.propertyName,
          writeObjectParamIndex |-> ParamIndexOf(f.to.heapId, ir),
          writePropertyName |-> f.to.heapId.propertyName] :
           f \in { x \in state.facts :
                     /\ x.from.kind = "heap_read" /\ x.to.kind = "heap_write"
                     /\ ParamAnchored(x.from.heapId, ir)
                     /\ ParamAnchored(x.to.heapId, ir) } }

\* C29: every heap effect of a function comes from a fact whose buckets are
\* anchored at the synthetic anchors of the function's own parameters, and a
\* fact on another anchor gives no effect.
C29_EffectsFromOwnParams ==
  /\ call.op \in {"callee", "caller"} =>
       EffectsFromOwnParams(call.output.calleeState, call.input.callee)
  /\ call.op = "caller" =>
       EffectsFromOwnParams(call.output.callerState, call.input.caller)

\* A function has a fact that writes a bucket anchored at an allocation and
\* a fact that writes a parameter's bucket: only the second is an effect.
C29_Witness ==
  /\ call.op = "caller"
  /\ \E f \in call.output.callerState.facts :
       /\ f.to.kind = "heap_write"
       /\ f.to.heapId.site = S(LiftCaller, 0)
  /\ \E f \in call.output.calleeState.facts :
       /\ f.to.kind = "heap_write"
       /\ f.to.heapId.site = S(LiftCallee, 0)
  /\ Cardinality(call.output.calleeState.paramHeapWriteEffects) = 1

\* ------------------------------------------------------------------------
\* Specification of processes that share one cache entry
\* ------------------------------------------------------------------------

\* The processes that call writeFuncSummaryToCache on the key, once each, and
\* the number of reads of the key.
MaxWriters == 3
MaxReads == 2

Writers == 1..MaxWriters

\* The text every writer holds for the key: the key is the hash of the
\* function's normalized IR, and the summary is computed from that IR.
SharedFileText == CacheFileText(BaselineSummary(TemplateIr("getX", FuncUniverse[1])))

\* The content of a file that was created or truncated and not yet written.
EmptyFileText == [text |-> "empty", json |-> JsonNull, newline |-> FALSE]

\* No file: the path does not exist, the process holds no file open.
NoFile == 0

\* The entry path p and the path p.tmp name files; a file keeps its content
\* when a path is renamed onto another; files are numbered as they are
\* created. pc is where each writer stands in
\* writeFuncSummaryToCache, open the file a writer holds open, reads the
\* results of the reads so far, and overlap tells whether a write call began
\* while another had not ended.
ProcsState(pc, open, entry, tmp, data, created, reads, overlap) ==
  [pc |-> pc, open |-> open, entry |-> entry, tmp |-> tmp, data |-> data,
   created |-> created, reads |-> reads, overlap |-> overlap]

InitProcs ==
  /\ IdleRun
  /\ IdleStore
  /\ call = NoCall
  /\ procs = ProcsState([w \in Writers |-> "start"], [w \in Writers |-> NoFile], NoFile,
                        NoFile, [f \in Writers |-> EmptyFileText], 0, << >>, FALSE)

InWrite(pc) == pc \in {"checked", "opened", "written"}

\* A variant that goes on whether the entry exists or not.
AfterStatWithoutSkip(ps, w) ==
  [ps EXCEPT !.pc[w] = "checked",
             !.overlap = ps.overlap \/ \E o \in Writers \ {w} : InWrite(ps.pc[o])]

\* statSync(p): the call returns when the entry is a file.
AfterStat(ps, w) ==
  IF ps.entry # NoFile THEN [ps EXCEPT !.pc[w] = "done"]
  ELSE [ps EXCEPT !.pc[w] = "checked",
                  !.overlap = ps.overlap \/ \E o \in Writers \ {w} : InWrite(ps.pc[o])]

\* The file a process creates: created counts the files created so far.
FreshFile(ps) == ps.created + 1

\* writeFileSync(tmp, json) opens the tmp path: the file it names is
\* truncated, a missing file is created.
AfterOpen(ps, w) ==
  IF ps.tmp # NoFile
    THEN [ps EXCEPT !.pc[w] = "opened", !.open[w] = ps.tmp, !.data[ps.tmp] = EmptyFileText]
    ELSE [ps EXCEPT !.pc[w] = "opened", !.open[w] = FreshFile(ps), !.tmp = FreshFile(ps),
                    !.data[FreshFile(ps)] = EmptyFileText, !.created = FreshFile(ps)]

\* writeFileSync(tmp, json) writes the text into the file it opened, and
\* closes it.
AfterWrite(ps, w) ==
  [ps EXCEPT !.pc[w] = "written", !.data[ps.open[w]] = SharedFileText, !.open[w] = NoFile]

\* renameSync(tmp, p): the entry path names the file of the tmp path, in the
\* place of the file it named; ENOENT when the tmp path does not exist.
AfterRename(ps, w) ==
  IF ps.tmp = NoFile THEN [ps EXCEPT !.pc[w] = "failed"]
  ELSE [ps EXCEPT !.pc[w] = "done", !.entry = ps.tmp, !.tmp = NoFile]

\* readFuncSummaryFromCache by a process: undefined, an error of JSON.parse,
\* or the parsed text, with the file it was read from.
ReadByProcess(ps) ==
  IF ps.entry = NoFile THEN [status |-> "absent", bytes |-> NoText, file |-> NoFile]
  ELSE IF ~JsonParse(ps.data[ps.entry]).ok
    THEN [status |-> "error", bytes |-> ps.data[ps.entry], file |-> ps.entry]
  ELSE [status |-> "ok", bytes |-> ps.data[ps.entry], file |-> ps.entry]

WriterStat(w) ==
  /\ procs.pc[w] = "start"
  /\ procs' = AfterStat(procs, w)
  /\ UNCHANGED << fixVars, ticks, cacheVars, cli, call >>

WriterOpen(w) ==
  /\ procs.pc[w] = "checked"
  /\ procs' = AfterOpen(procs, w)
  /\ UNCHANGED << fixVars, ticks, cacheVars, cli, call >>

WriterWrite(w) ==
  /\ procs.pc[w] = "opened"
  /\ procs' = AfterWrite(procs, w)
  /\ UNCHANGED << fixVars, ticks, cacheVars, cli, call >>

WriterRename(w) ==
  /\ procs.pc[w] = "written"
  /\ procs' = AfterRename(procs, w)
  /\ UNCHANGED << fixVars, ticks, cacheVars, cli, call >>

ReaderRead ==
  /\ Len(procs.reads) < MaxReads
  /\ procs' = [procs EXCEPT !.reads = Append(procs.reads, ReadByProcess(procs))]
  /\ UNCHANGED << fixVars, ticks, cacheVars, cli, call >>

NextProcs ==
  \/ \E w \in Writers : WriterStat(w)
  \/ \E w \in Writers : WriterOpen(w)
  \/ \E w \in Writers : WriterWrite(w)
  \/ \E w \in Writers : WriterRename(w)
  \/ ReaderRead

SpecProcs == InitProcs /\ [][NextProcs]_vars

\* C30, as stated: under any interleaving, once a read has returned a
\* summary every later read returns the same bytes.
C30_LaterReadsSameBytes ==
  \A i \in 1..Len(procs.reads) : \A j \in (i + 1)..Len(procs.reads) :
    procs.reads[i].status = "ok" =>
      procs.reads[j].status = "ok" /\ procs.reads[j].bytes = procs.reads[i].bytes

\* C30, amended: while no write call has begun before another ended, once a
\* read has returned a summary every later read returns the same bytes from
\* the same file: no writer replaces or corrupts the entry.
C30_SequentialWritesKeepEntry ==
  ~procs.overlap =>
    \A i \in 1..Len(procs.reads) : \A j \in (i + 1)..Len(procs.reads) :
      procs.reads[i].status = "ok" => procs.reads[j] = procs.reads[i]

\* Two reads returned the summary, one before and one after a second write
\* call that began after the first had ended.
C30_Witness ==
  /\ ~procs.overlap
  /\ Len(procs.reads) = 2
  /\ procs.reads[1].status = "ok"
  /\ procs.reads[2].status = "ok"
  /\ Cardinality({ w \in Writers : procs.pc[w] = "done" }) >= 2

====
